---- MODULE Spec2Model ----
(***************************************************************************)
(* A model of the UniProtocol engine (lib/UniProtocol.js): the wire codec  *)
(* (Message.encode / Message.decode / Message.reassemble), the reliability *)
(* engine (sendMessage / sendFragment with acks, resends and timeouts),    *)
(* the dispatcher (receive / receiveFullMessage) and sendQuery.            *)
(*                                                                         *)
(* JS strings are sequences of char codes, Buffers are sequences of bytes, *)
(* null (sessionId, dataBuffer) and undefined (data) are the empty tuple.  *)
(* A JS number used as a message id is a record [hi, lo, frac], standing   *)
(* for hi * 65536 + lo, plus 1/2 when frac = 1 (a non-integer number).     *)
(***************************************************************************)
EXTENDS Integers, Sequences, FiniteSets, TLC

VARIABLES
    \* ---- codec run (SpecCodec) ----
    cOrig,       \* the Message as built, before encode
    cMsg,        \* the same Message object, as encode leaves it
    cMax,        \* the maxBufferSize given to encode
    cPc,         \* "idle" | "new" | "encoded" | "threw" | "decoded" | "reassembled",
                 \* or the last payload method called on cMsg (SpecPayload)
    cBuffers,    \* the buffers encode returned
    cDecoded,    \* the messages Message.decode returned, one per buffer (<<>> = null)
    cReasm,      \* the message Message.reassemble returned
    \* ---- engine run (Spec) ----
    now,                  \* the clock, in ticks
    ackResendTimeout,     \* this.ackResendTimeout, in ticks
    ignoreWantedAck,      \* this.ignoreWantedAck
    supportedCommands,    \* this.supportedCommands: Null or <<set of commands>>
    ops,                  \* the sends started: sendCommand / sendQuery calls
    pendingAcks,          \* this.pendingAcks
    pendingReassemblies,  \* this.pendingReassemblies
    pendingResponses,     \* this.pendingResponses
    rotateDue,            \* when each cache rotates next
    net,                  \* the datagrams handed to the socket by sendFragment
    rxCount,              \* datagrams received so far
    lastRx,               \* what the last call of receive did
    thrown                \* an exception escaped a handler

codecVars == <<cOrig, cMsg, cMax, cPc, cBuffers, cDecoded, cReasm>>

engineVars == <<now, ackResendTimeout, ignoreWantedAck, supportedCommands,
                ops, pendingAcks,
                pendingReassemblies, pendingResponses, rotateDue, net, rxCount,
                lastRx, thrown>>

vars == <<codecVars, engineVars>>

-----------------------------------------------------------------------------
(* Constants of lib/UniProtocol.js                                          *)

MIN_HEADER_SIZE == 15
SESSION_SIZE == 8
MIN_DATA_FRAGMENT_SIZE == 16

FLAG_WANT_ACK == 1
FLAG_IS_ACK == 2
FLAG_IS_NACK == 4
FLAG_HAS_DATA == 8
FLAG_FRAGMENTED == 16
FLAG_COMPRESSED_DATA == 32
FLAG_ENCRYPTED_DATA == 64
FLAG_SESSION == 128

\* Every byte taken for a type
AnyByteAType == 0..255

\* 'C' , 'Q' , 'R' , 'E' , 'K' , 'H' , 'h'
TYPES == {67, 81, 82, 69, 75, 72, 104}

\* RESPONSE_TYPE_FOR = { Q: 'R' , q: 'r' }
RESPONSE_TYPE_FOR == [t \in {81, 113} |-> IF t = 81 THEN 82 ELSE 114]

UDP_IP_HEADER_SIZE == 68

\* 'UNP'
DefaultSignature == <<85, 78, 80>>

-----------------------------------------------------------------------------
(* Bounds of the model                                                      *)

\* the longest payload string of a codec run
MaxDataLen == 40
\* the maxBufferSize values of a codec run: 0 (no fragmentation) and
\* MinBufferSize..MinBufferSize + BufferSizes
BufferSizes == 12

-----------------------------------------------------------------------------
(* Values                                                                   *)

Null == <<>>
Undefined == <<>>

NoEndpoint == [address |-> "", port |-> 0]

Min(a, b) == IF a < b THEN a ELSE b

CeilDiv(a, b) == (a + b - 1) \div b

\* Buffer.slice( start , end ): both ends clamped to the buffer
Slice(buf, start, end) ==
    LET e == Min(end, Len(buf))
    IN  IF start >= e THEN <<>> ELSE SubSeq(buf, start + 1, e)

RECURSIVE Concat(_)
\* Buffer.concat( list )
Concat(list) ==
    IF list = <<>> THEN <<>> ELSE Head(list) \o Concat(Tail(list))

\* The integer id hi * 65536 + lo
IntId(hi, lo) == [hi |-> hi, lo |-> lo, frac |-> 0]

\* new Message()
NewMessage ==
    [ sender |-> NoEndpoint, protocolSignature |-> DefaultSignature,
      wantAck |-> FALSE, isAck |-> FALSE, isNack |-> FALSE,
      fragmented |-> FALSE, reassembled |-> FALSE,
      compressedData |-> FALSE, encryptedData |-> FALSE,
      type |-> 0, command |-> <<>>, id |-> IntId(0, 0),
      sessionId |-> Null, fragmentIndex |-> 0, fragments |-> 1,
      dataBuffer |-> Null, data |-> Undefined,
      encoded |-> FALSE, decoded |-> FALSE ]

-----------------------------------------------------------------------------
(* The payload serializer and the raw-deflate compression are external     *)
(* collaborators.  A payload value is a string <<chars>>; it is serialized *)
(* as a type byte, a length byte and the chars.  Compression is modelled   *)
(* by deflate's stored block: 0x01, LEN and ~LEN (little-endian), the data.*)

Serialize(data) == <<115, Len(data[1])>> \o data[1]

Unserialize(buf) ==
    IF Len(buf) >= 2 /\ buf[1] = 115 /\ buf[2] = Len(buf) - 2
    THEN <<Slice(buf, 2, Len(buf))>>
    ELSE Undefined

DeflateRaw(buf) ==
    <<1, Len(buf) % 256, Len(buf) \div 256,
      255 - (Len(buf) % 256), 255 - (Len(buf) \div 256)>> \o buf

InflateRaw(buf) == Slice(buf, 5, Len(buf))

\* What jsbindat.unserialize takes without throwing
IsSerialized(buf) == Len(buf) >= 2 /\ buf[1] = 115 /\ buf[2] = Len(buf) - 2

\* What zlib.inflateRawSync takes without throwing
IsDeflated(buf) ==
    /\ Len(buf) >= 5 /\ buf[1] = 1
    /\ buf[2] + 256 * buf[3] = Len(buf) - 5
    /\ buf[4] = 255 - buf[2] /\ buf[5] = 255 - buf[3]

\* A writeUInt16BE that writes the low byte first
UInt16LittleEndian(v) == <<v % 256, (v \div 256) % 256>>

\* buffer.writeUInt16BE( v )
UInt16BE(v) == <<(v \div 256) % 256, v % 256>>

\* buffer.writeUInt32BE( v ): the fractional part of v is dropped
UInt32BE(id) == UInt16BE(id.hi) \o UInt16BE(id.lo)

\* buffer.readUInt16BE( at ), at counted from 0
ReadUInt16BE(buf, at) == buf[at + 1] * 256 + buf[at + 2]

\* buffer.readUInt32BE( at ), as an id
ReadUInt32BE(buf, at) == IntId(ReadUInt16BE(buf, at), ReadUInt16BE(buf, at + 2))

\* A hex string of 16 digits (each 0..15) written as 8 bytes, and back
HexToBytes(hex) == [i \in 1..(Len(hex) \div 2) |-> 16 * hex[2 * i - 1] + hex[2 * i]]

BytesToHex(bytes) ==
    [i \in 1..(2 * Len(bytes)) |->
        IF i % 2 = 1 THEN bytes[(i + 1) \div 2] \div 16 ELSE bytes[i \div 2] % 16]

HasFlag(flags, flag) == (flags \div flag) % 2 = 1

Flag(cond, flag) == IF cond THEN flag ELSE 0

\* writeUInt32BE( value ) throws a RangeError outside 0..2^32-1
IdOutOfRange(id) ==
    \/ id.hi > 65535
    \/ id.hi = 65535 /\ id.lo = 65535 /\ id.frac = 1

-----------------------------------------------------------------------------
(* Message: payload forms                                                   *)

\* A setData that keeps the buffer of the former data
SetDataKeepingBuffer(m, data) == [m EXCEPT !.data = data, !.decoded = TRUE]

SetData(m, data) ==
    [m EXCEPT !.data = data, !.decoded = TRUE, !.dataBuffer = Null, !.encoded = FALSE]

SetDataBuffer(m, dataBuffer) ==
    [m EXCEPT !.dataBuffer = dataBuffer, !.encoded = TRUE,
              !.data = Undefined, !.decoded = FALSE]

ClearDataBuffer(m) == [m EXCEPT !.dataBuffer = Null, !.encoded = FALSE]

EncodeData(m) ==
    IF m.encoded THEN m
    ELSE [m EXCEPT !.dataBuffer = IF m.compressedData
                                  THEN DeflateRaw(Serialize(m.data))
                                  ELSE Serialize(m.data),
                   !.encoded = TRUE]

DecodeData(m) ==
    IF m.decoded THEN m
    ELSE IF m.dataBuffer = Null \/ m.fragmented THEN m
    ELSE LET inflated == ~m.compressedData \/ IsDeflated(m.dataBuffer)
             buffer == IF m.compressedData THEN InflateRaw(m.dataBuffer) ELSE m.dataBuffer
         IN  IF ~inflated \/ ~IsSerialized(buffer)
             THEN [m EXCEPT !.data = Undefined]      \* caught: "Can't decode data"
             ELSE [m EXCEPT !.data = Unserialize(buffer), !.decoded = TRUE]

-----------------------------------------------------------------------------
(* Message.prototype.encode                                                 *)

\* The header bytes; fragmentBlock is <<>> or the 4 bytes index/total
HeadBuffer(m, flags, fragmentBlock) ==
    Slice(m.protocolSignature, 0, 3) \o <<0>> \o UInt16BE(flags)
        \o <<m.type>> \o m.command \o UInt32BE(m.id)
        \o (IF m.sessionId # Null THEN HexToBytes(m.sessionId) ELSE <<>>)
        \o fragmentBlock

\* A fragment count that forgets the 4 bytes of the fragment block
FragmentCountWithoutBlock(length, maxDataSize) == CeilDiv(length, maxDataSize + 4)

\* fragments = Math.ceil( dataBuffer.length / maxDataSize )
FragmentCount(length, maxDataSize) == CeilDiv(length, maxDataSize)

\* A fragment size rounded down
FragmentSizeFloor(length, fragments) == length \div fragments

\* fragmentSize = Math.ceil( dataBuffer.length / fragments )
FragmentSize(length, fragments) == CeilDiv(length, fragments)

\* The slice of the payload that fragment i (from 0) carries
FragmentSlice(dataBuffer, fragmentSize, i) ==
    Slice(dataBuffer, fragmentSize * i, fragmentSize * i + fragmentSize)

\* A test that lets 16 bytes of data per fragment pass
TooSmallBelowMinimum(maxDataSize) == maxDataSize < MIN_DATA_FRAGMENT_SIZE

\* if ( maxDataSize <= MIN_DATA_FRAGMENT_SIZE ) throw
TooSmall(maxDataSize) == maxDataSize <= MIN_DATA_FRAGMENT_SIZE

\* The result of encode: the buffers, whether it threw, and the message object
\* as encode leaves it (dataBuffer, encoded, fragmented and fragments are set)
Encode(m, maxBufferSize) ==
    LET hasData == m.data # Undefined
        baseSize == MIN_HEADER_SIZE + (IF m.sessionId # Null THEN SESSION_SIZE ELSE 0)
        m1 == IF hasData THEN EncodeData(m) ELSE m
        length == Len(m1.dataBuffer)
        willFragment == hasData /\ maxBufferSize > 0 /\ baseSize + length > maxBufferSize
        ackFragment == ~hasData /\ m.fragmented /\ (m.isAck \/ m.isNack)
        headerSize == baseSize + (IF willFragment \/ ackFragment THEN 4 ELSE 0)
        maxDataSize == maxBufferSize - headerSize
        tooSmall == willFragment /\ TooSmall(maxDataSize)
        fragments == IF willFragment /\ ~tooSmall
                     THEN FragmentCount(length, maxDataSize) ELSE 1
        fragmentSize == IF willFragment /\ ~tooSmall
                        THEN FragmentSize(length, fragments) ELSE 0
        flags == Flag(m.wantAck, FLAG_WANT_ACK) + Flag(m.isAck, FLAG_IS_ACK)
                 + Flag(m.isNack, FLAG_IS_NACK) + Flag(m.sessionId # Null, FLAG_SESSION)
                 + Flag(hasData, FLAG_HAS_DATA)
                 + Flag(hasData /\ m.compressedData, FLAG_COMPRESSED_DATA)
                 + Flag(hasData /\ m.encryptedData, FLAG_ENCRYPTED_DATA)
                 + Flag(willFragment \/ ackFragment, FLAG_FRAGMENTED)
        m2 == IF willFragment
              THEN [m1 EXCEPT !.fragmented = TRUE,
                              !.fragments = IF tooSmall THEN @ ELSE fragments]
              ELSE m1
        \* a fragment block written past the header, an id or a count out of range
        rangeError == \/ IdOutOfRange(m.id)
                      \/ fragments > 65535
                      \/ hasData /\ ~willFragment /\ m.fragmented /\ (m.isAck \/ m.isNack)
        threw == tooSmall \/ rangeError
        ackBlock == IF ackFragment
                    THEN UInt16BE(m.fragmentIndex) \o UInt16BE(m.fragments) ELSE <<>>
        buffers ==
            IF threw THEN <<>>
            ELSE IF ~hasData THEN << HeadBuffer(m2, flags, ackBlock) >>
            ELSE IF fragments = 1
                 THEN << HeadBuffer(m2, flags, <<>>) \o m2.dataBuffer >>
            ELSE [i \in 1..fragments |->
                    HeadBuffer(m2, flags, UInt16BE(i - 1) \o UInt16BE(fragments))
                        \o FragmentSlice(m2.dataBuffer, fragmentSize, i - 1)]
    IN  [threw |-> threw, buffers |-> buffers, message |-> m2]

-----------------------------------------------------------------------------
(* Message.decode                                                           *)

\* `this.enableSession` inside the static Message.decode reads a property of
\* the Message constructor, which nothing sets: it is always undefined
MessageEnableSession == FALSE

\* this.enableSession of the engine, by default; no call hands it to decode
EnableSession == FALSE

\* commandList, the supportedCommands argument, is Null (no list) or
\* <<set of commands>>
Decode(buffer, sender, protocolSignature, commandList) ==
    LET flags == ReadUInt16BE(buffer, 4)
        wantAck == HasFlag(flags, FLAG_WANT_ACK)
        isAck == HasFlag(flags, FLAG_IS_ACK)
        isNack == HasFlag(flags, FLAG_IS_NACK)
        hasData == HasFlag(flags, FLAG_HAS_DATA)
        fragmented == HasFlag(flags, FLAG_FRAGMENTED)
        compressedData == HasFlag(flags, FLAG_COMPRESSED_DATA)
        encryptedData == HasFlag(flags, FLAG_ENCRYPTED_DATA)
        isSession == HasFlag(flags, FLAG_SESSION)
        expectedSize == MIN_HEADER_SIZE + (IF isSession THEN SESSION_SIZE ELSE 0)
                        + (IF fragmented THEN 4 ELSE 0)
        type == buffer[7]
        command == [i \in 1..4 |-> buffer[7 + i] % 128]
        ptr1 == MIN_HEADER_SIZE + (IF isSession THEN SESSION_SIZE ELSE 0)
        ptr2 == ptr1 + (IF fragmented THEN 4 ELSE 0)
        readFragments == ReadUInt16BE(buffer, ptr1 + 2)
        header ==
            [NewMessage EXCEPT
                !.sender = sender, !.protocolSignature = protocolSignature,
                !.type = type, !.command = command,
                !.id = ReadUInt32BE(buffer, 11),
                !.wantAck = wantAck, !.isAck = isAck, !.isNack = isNack,
                !.fragmented = fragmented, !.compressedData = compressedData,
                !.encryptedData = encryptedData,
                !.sessionId = IF isSession
                              THEN BytesToHex(Slice(buffer, ptr1 - SESSION_SIZE, ptr1))
                              ELSE Null,
                !.fragmentIndex = IF fragmented THEN ReadUInt16BE(buffer, ptr1) ELSE 0,
                !.fragments = IF fragmented /\ readFragments # 0 THEN readFragments ELSE 1]
        rejected ==
            \/ Len(buffer) < MIN_HEADER_SIZE
            \/ buffer[4] # 0
            \/ \E i \in 1..3 : buffer[i] # protocolSignature[i]
            \/ wantAck /\ (isAck \/ isNack)
            \/ isSession /\ MessageEnableSession
            \/ hasData /\ (isAck \/ isNack)
            \/ hasData /\ Len(buffer) <= expectedSize
            \/ ~hasData /\ (compressedData \/ encryptedData)
            \/ ~hasData /\ Len(buffer) # expectedSize
            \/ type \notin TYPES
            \/ commandList # Null /\ command \in commandList[1]
    IN  IF rejected THEN [ok |-> FALSE, message |-> NewMessage]
        ELSE [ok |-> TRUE,
              message |-> IF hasData
                          THEN SetDataBuffer(header, Slice(buffer, ptr2, Len(buffer)))
                          ELSE header]

-----------------------------------------------------------------------------
(* Message.reassemble                                                       *)

\* A reassembly that keeps the payload of the first fragment only
ReassembleFirstOnly(messageList) ==
    [threw |-> FALSE,
     message |-> [messageList[1] EXCEPT !.reassembled = TRUE, !.fragmented = FALSE,
                                        !.wantAck = FALSE, !.fragmentIndex = 0,
                                        !.fragments = 1, !.encoded = FALSE]]

\* A reassembly that puts the payloads together last fragment first
ReassembleBackwards(messageList) ==
    [threw |-> FALSE,
     message |->
        [messageList[1] EXCEPT
            !.reassembled = TRUE, !.fragmented = FALSE, !.wantAck = FALSE,
            !.fragmentIndex = 0, !.fragments = 1,
            !.dataBuffer = Concat([i \in 1..Len(messageList) |->
                                     messageList[Len(messageList) + 1 - i].dataBuffer])]]

\* Buffer.concat throws a TypeError when a fragment has no dataBuffer
Reassemble(messageList) ==
    LET first == messageList[1]
        threw == \E i \in 1..Len(messageList) : messageList[i].dataBuffer = Null
    IN  [threw |-> threw,
         message |->
            [NewMessage EXCEPT
                !.reassembled = TRUE, !.sender = first.sender,
                !.protocolSignature = first.protocolSignature,
                !.type = first.type, !.command = first.command, !.id = first.id,
                !.compressedData = first.compressedData,
                !.encryptedData = first.encryptedData,
                !.sessionId = first.sessionId,
                !.dataBuffer = IF threw THEN Null
                               ELSE Concat([i \in 1..Len(messageList) |->
                                                messageList[i].dataBuffer])]]

-----------------------------------------------------------------------------
(* Values of the runs                                                       *)

\* "ping"
CmdPing == <<112, 105, 110, 103>>

Peer == [address |-> "10.0.0.2", port |-> 4000]

\* A 16-digit hex string
SessionIds == { [i \in 1..16 |-> (i * 7) % 16] }

\* A payload string of k chars that differ from place to place
DataString(k, seed) == << [i \in 1..k |-> (seed + 37 * i) % 256] >>

-----------------------------------------------------------------------------
(* Identity helpers                                                         *)

\* An ack id that leaves the fragment out
GetAckIdWithoutFragment(m, endpoint, fragmentIndex) ==
    <<endpoint.address, endpoint.port, m.type, m.command, m.id>>

\* Message.prototype.getAckId: '[addr]:port:' + type + command + id, and
\* ':' + fragmentIndex + '/' + fragments when the message is fragmented
GetAckId(m, endpoint, fragmentIndex) ==
    <<endpoint.address, endpoint.port, m.type, m.command, m.id>>
        \o (IF m.fragmented THEN <<fragmentIndex, m.fragments>> ELSE <<>>)

\* Message.prototype.getResponseId
GetResponseId(m, endpoint) ==
    <<endpoint.address, endpoint.port,
      IF m.type \in DOMAIN RESPONSE_TYPE_FOR THEN RESPONSE_TYPE_FOR[m.type] ELSE m.type,
      m.command, m.id>>

\* Message.prototype.getReassemblyId
GetReassemblyId(m, endpoint) ==
    <<endpoint.address, endpoint.port, m.type, m.command, m.id, m.fragments>>

\* A toAck that forgets which fragment it acknowledges
ToAckWithoutFragment(m) ==
    [NewMessage EXCEPT
        !.protocolSignature = m.protocolSignature, !.isAck = TRUE,
        !.type = m.type, !.command = m.command, !.id = m.id]

\* Message.prototype.toAck
ToAck(m) ==
    [NewMessage EXCEPT
        !.protocolSignature = m.protocolSignature, !.isAck = TRUE,
        !.type = m.type, !.command = m.command, !.id = m.id,
        !.fragmented = m.fragmented,
        !.fragmentIndex = IF m.fragmented THEN m.fragmentIndex ELSE 0,
        !.fragments = IF m.fragmented THEN m.fragments ELSE 1]

\* UniProtocol.prototype._createMessage
CreateMessage(protocolSignature, wantAck, type, command, id, data, compressed) ==
    LET m == [NewMessage EXCEPT
                !.protocolSignature = protocolSignature, !.wantAck = wantAck,
                !.type = type, !.command = command, !.id = id]
    IN  IF data # Undefined
        THEN [SetData(m, data) EXCEPT !.compressedData = compressed]
        ELSE m

-----------------------------------------------------------------------------
(* The time-bounded cache (lru-kit's LRUCacheMap, an external package):     *)
(* generational sectors, the newest first; set puts the entry in the newest *)
(* sector, a rotation drops the oldest sector and opens a new one, a get    *)
(* leaves the entry where it is.  A sector is a set of [key, val].          *)

\* new LRUCacheMap( forgetTimeout , 1000 , 4 ): the number of sectors
CacheSectors == 4

EmptyCache == [i \in 1..CacheSectors |-> {}]

CacheKeys(cache) == { e.key : e \in UNION { cache[i] : i \in 1..CacheSectors } }

CacheHas(cache, key) == key \in CacheKeys(cache)

CacheGet(cache, key) ==
    LET i == CHOOSE i \in 1..CacheSectors :
                /\ \E e \in cache[i] : e.key = key
                /\ \A j \in 1..(i - 1) : \A e \in cache[j] : e.key # key
    IN  (CHOOSE e \in cache[i] : e.key = key).val

CacheDelete(cache, key) ==
    [i \in 1..CacheSectors |-> { e \in cache[i] : e.key # key }]

\* A set that keeps the entry a key already has
CacheSetKeepingFirst(cache, key, val) ==
    IF key \in { e.key : e \in UNION { cache[i] : i \in 1..CacheSectors } }
    THEN cache
    ELSE [cache EXCEPT ![1] = @ \cup {[key |-> key, val |-> val, at |-> now]}]

\* at is not a field of the cache: it records when the entry was set
CacheSet(cache, key, val) ==
    [CacheDelete(cache, key) EXCEPT
        ![1] = @ \cup {[key |-> key, val |-> val, at |-> now]}]

\* A rotation that keeps the oldest sector
CacheRotateKeepingOldest(cache) ==
    [i \in 1..CacheSectors |->
        IF i = 1 THEN {}
        ELSE IF i = CacheSectors THEN cache[i] \cup cache[i - 1]
        ELSE cache[i - 1]]

CacheRotate(cache) ==
    [i \in 1..CacheSectors |-> IF i = 1 THEN {} ELSE cache[i - 1]]

\* The value under key is mutated in place: the entry stays in its sector
CacheMutate(cache, key, val) ==
    [i \in 1..CacheSectors |->
        { IF e.key = key THEN [e EXCEPT !.val = val] ELSE e : e \in cache[i] }]

\* The rotation period of a cache made with forgetTimeout: an entry is
\* dropped by the CacheSectors-th rotation after it was set
RotationPeriod(forgetTimeout) == forgetTimeout \div CacheSectors

-----------------------------------------------------------------------------
(* Configuration of the engine, in ticks of the clock                       *)

\* this.ackForgetTimeout
AckForgetTimeout == 4
\* this.responseForgetTimeout
ResponseForgetTimeout == 4
\* this.reassemblyForgetTimeout
ReassemblyForgetTimeout == 4
\* this.maxPacketSize: maxBufferSize is 36, 17 payload bytes per fragment
MaxPacketSize == 104
\* this.supportedCommands
SupportedCommands == Null

\* let retryTimer = null, timeoutTimer = null
NoTimer == -1

Caches == {"acks", "reassemblies", "responses"}

ForgetTimeoutOf(cacheName) ==
    CASE cacheName = "acks" -> AckForgetTimeout
      [] cacheName = "reassemblies" -> ReassemblyForgetTimeout
      [] cacheName = "responses" -> ResponseForgetTimeout

\* An error without the timeout code
PlainError(message) == [code |-> "error", message |-> message]

\* new common.TimeoutError( message ): this.code = 'timeout'
TimeoutError(message) == [code |-> "timeout", message |-> message]

NoError == [code |-> "", message |-> ""]

-----------------------------------------------------------------------------
(* Sends.  An op is one call of sendCommand or sendQuery; op.frags[i] is    *)
(* the call of sendFragment for buffer i.                                   *)

\* sendFragment( to , message , fragmentIndex , buffer , retries ) right after
\* its first sendBuffer handed the buffer to the socket
NewFragment(buffer, retries) ==
    [ buffer |-> buffer,
      awaiting |-> "first",      \* the socket callback awaited: first | retry | none
      sent |-> 1,                \* datagrams handed to the socket
      retries |-> retries,
      ack |-> "none",            \* the ack promise: none | pending | resolved | rejected
      error |-> NoError,
      done |-> FALSE,
      retryTimer |-> NoTimer,
      timeoutTimer |-> NoTimer,
      promise |-> "pending",     \* what sendFragment returned
      registeredAt |-> NoTimer,  \* when the pending ack was set
      lastSent |-> now,          \* when the last datagram was handed over
      settledAt |-> NoTimer,     \* when the ack promise was settled
      skipped |-> 0 ]            \* calls of retryFn that found done set

\* A race: settled as soon as one of the promises is
PromiseAny(frags) ==
    IF \E i \in 1..Len(frags) : frags[i].promise = "resolved" THEN "resolved"
    ELSE IF \E i \in 1..Len(frags) : frags[i].promise = "rejected" THEN "rejected"
    ELSE "pending"

\* Promise.map( buffers , sendFragment ), or the single sendFragment promise
PromiseMap(frags) ==
    IF \E i \in 1..Len(frags) : frags[i].promise = "rejected" THEN "rejected"
    ELSE IF \A i \in 1..Len(frags) : frags[i].promise = "resolved" THEN "resolved"
    ELSE "pending"

\* The rest of sendQuery once sendMessage has settled, and the state of the
\* promise sendMessage returned
SettleOp(op) ==
    LET state == IF op.sendState = "pending" THEN PromiseMap(op.frags) ELSE op.sendState
        settled == op.sendState = "pending" /\ state # "pending"
        rejecting == CHOOSE i \in 1..Len(op.frags) : op.frags[i].promise = "rejected"
    IN  IF ~settled THEN op
        ELSE IF state = "rejected"
        THEN [op EXCEPT !.sendState = state,
                        !.sendError = op.frags[rejecting].error,
                        !.qState = IF op.kind = "query" THEN "rejected" ELSE @,
                        !.qError = IF op.kind = "query" THEN op.frags[rejecting].error ELSE @]
        ELSE IF op.kind = "query"
        THEN [op EXCEPT !.sendState = state, !.qState = "waiting",
                        !.qTimer = now + ResponseForgetTimeout,
                        !.qRegisteredAt = now]
        ELSE [op EXCEPT !.sendState = state]

\* A sendQuery that registers its pending response without awaiting the send
ResponsesAtOnce(o, before, after) ==
    IF before.qState = "sending"
    THEN CacheSet(pendingResponses, GetResponseId(after.message, after.to), o)
    ELSE pendingResponses

\* this.pendingResponses after op o went from before to after
ResponsesAfterSettle(o, before, after) ==
    IF before.qState = "sending" /\ after.qState = "waiting"
    THEN CacheSet(pendingResponses, GetResponseId(after.message, after.to), o)
    ELSE pendingResponses

\* An ack.resolve() that settles the promise again
ResolveAckAgain(frag) ==
    [frag EXCEPT !.ack = "resolved", !.promise = "resolved", !.done = TRUE,
                 !.retryTimer = NoTimer, !.timeoutTimer = NoTimer,
                 !.settledAt = now]

\* ack.resolve() and its finally handler
ResolveAck(frag) ==
    IF frag.ack # "pending" THEN frag
    ELSE [frag EXCEPT !.ack = "resolved", !.promise = "resolved", !.done = TRUE,
                      !.retryTimer = NoTimer, !.timeoutTimer = NoTimer,
                      !.settledAt = now]

\* ack.reject( error ) and its finally handler
RejectAck(frag, error) ==
    IF frag.ack # "pending" THEN frag
    ELSE [frag EXCEPT !.ack = "rejected", !.promise = "rejected", !.error = error,
                      !.done = TRUE,
                      !.retryTimer = NoTimer, !.timeoutTimer = NoTimer,
                      !.settledAt = now]

\* A sendFragment that arms the resend timer whatever retries is
RegisterAckAlwaysResending(frag, wantAck) ==
    IF ~wantAck THEN [frag EXCEPT !.awaiting = "none", !.promise = "resolved"]
    ELSE [frag EXCEPT !.awaiting = "none", !.ack = "pending",
                      !.retryTimer = now + ackResendTimeout,
                      !.timeoutTimer = now + AckForgetTimeout,
                      !.registeredAt = now]

\* A sendFragment that arms no ack timeout
RegisterAckWithoutTimeout(frag, wantAck) ==
    IF ~wantAck THEN [frag EXCEPT !.awaiting = "none", !.promise = "resolved"]
    ELSE [frag EXCEPT !.awaiting = "none", !.ack = "pending",
                      !.retryTimer = IF frag.retries # 0
                                     THEN now + ackResendTimeout ELSE NoTimer,
                      !.registeredAt = now]

\* The rest of sendFragment after the first socket callback
RegisterAck(frag, wantAck) ==
    IF ~wantAck THEN [frag EXCEPT !.awaiting = "none", !.promise = "resolved"]
    ELSE [frag EXCEPT !.awaiting = "none", !.ack = "pending",
                      !.retryTimer = IF frag.retries # 0
                                     THEN now + ackResendTimeout ELSE NoTimer,
                      !.timeoutTimer = now + AckForgetTimeout,
                      !.registeredAt = now]

\* A retryFn that does not count its resends down
AfterResendKeepingRetries(frag) ==
    [frag EXCEPT !.awaiting = "none",
                 !.retryTimer = IF frag.retries > 0
                                THEN now + ackResendTimeout ELSE NoTimer]

\* The rest of retryFn after the socket callback of a resend
AfterResend(frag) ==
    [frag EXCEPT !.awaiting = "none", !.retries = @ - 1,
                 !.retryTimer = IF frag.retries - 1 > 0
                                THEN now + ackResendTimeout ELSE NoTimer]

\* A retryFn without `if ( done ) { return ; }`
RetryFnIgnoringDone(frag) ==
    [frag EXCEPT !.retryTimer = NoTimer, !.awaiting = "retry", !.sent = @ + 1,
                 !.lastSent = now]

\* retryFn up to its await: no resend once done
RetryFn(frag) ==
    IF frag.done THEN [frag EXCEPT !.retryTimer = NoTimer, !.skipped = @ + 1]
    ELSE [frag EXCEPT !.retryTimer = NoTimer, !.awaiting = "retry", !.sent = @ + 1,
                      !.lastSent = now]


-----------------------------------------------------------------------------
(* The engine's surroundings                                                *)

\* the longest run of the clock
MaxTime == 5
\* the sends of a run
MaxOps == 1
\* the last tick at which a send may start
LastStart == 0
\* the datagrams a run receives
MaxReceives == 2
\* Datagrams received in a run of unsolicited traffic
MaxUnsolicited == 3
\* the retries option of a send: 0..MaxRetries
MaxRetries == 2
\* this.ackResendTimeout: 1 or MaxResendTimeout ticks
MaxResendTimeout == 3

\* the engine's own endpoint, as its peers see it
Self == [address |-> "10.0.0.1", port |-> 3000]

\* common.getPseudoRandomUInt32(): Math.random() * 65536 * 65536
\* + Math.random() * 65536, an integer only by chance
EngineIds == { IntId(0, 7), [hi |-> 0, lo |-> 7, frac |-> 1] }

\* Payloads of a send: none, or a string that needs two fragments
EngineData == { Undefined, DataString(20, 3) }

\* "message"
EvMessage == <<109, 101, 115, 115, 97, 103, 101>>

NoRx ==
    [ seen |-> FALSE, buffer |-> <<>>, again |-> FALSE,
      decoded |-> FALSE, message |-> NewMessage,
      isFull |-> FALSE, full |-> NewMessage,
      ackSent |-> FALSE, ackTo |-> NoEndpoint, ackBuffer |-> <<>>,
      ackFound |-> FALSE, strayAck |-> FALSE, ackRef |-> <<0, 0>>,
      responseFound |-> FALSE, strayResponse |-> FALSE, resolvedOp |-> 0,
      fragmentDropped |-> FALSE, reassembled |-> FALSE,
      events |-> <<>> ]

\* No codec run
CodecIdle ==
    /\ cOrig = NewMessage /\ cMsg = NewMessage /\ cMax = 0 /\ cPc = "idle"
    /\ cBuffers = <<>> /\ cDecoded = <<>> /\ cReasm = NewMessage

Init ==
    /\ now = 0
    /\ ackResendTimeout \in {1, MaxResendTimeout}
    /\ ignoreWantedAck = FALSE
    /\ supportedCommands = SupportedCommands
    /\ ops = <<>>
    /\ pendingAcks = EmptyCache
    /\ pendingReassemblies = EmptyCache
    /\ pendingResponses = EmptyCache
    /\ rotateDue = [c \in Caches |-> RotationPeriod(ForgetTimeoutOf(c))]
    /\ net = {}
    /\ rxCount = 0
    /\ lastRx = NoRx
    /\ thrown = FALSE
    /\ CodecIdle

\* sendMessage( to , message , retries ) up to the first awaits: the message
\* is encoded and every buffer is handed to the socket
\* A sendMessage that hands over the first buffer only
FirstBufferOnly(to, buffers) ==
    { [to |-> to, buffer |-> buffers[i]] : i \in 1..(IF Len(buffers) > 0 THEN 1 ELSE 0) }

\* The datagrams sendMessage hands to the socket before it returns: each
\* sendFragment runs up to its first await, inside sendBuffer
HandedToSocket(to, buffers) ==
    { [to |-> to, buffer |-> buffers[i]] : i \in 1..Len(buffers) }

StartSendWithin(maxOps, kind, to, type, command, id, data, wantAck, retries) ==
    LET r == Encode(CreateMessage(DefaultSignature, wantAck, type, command, id,
                                  data, FALSE),
                    MaxPacketSize - UDP_IP_HEADER_SIZE)
        op == [ kind |-> kind, to |-> to, message |-> r.message,
                retries |-> retries,
                frags |-> [i \in 1..Len(r.buffers) |->
                              NewFragment(r.buffers[i], retries)],
                sendState |-> IF r.threw THEN "rejected" ELSE "pending",
                sendError |-> IF r.threw THEN [code |-> "error", message |-> "encode"]
                              ELSE NoError,
                qState |-> IF kind # "query" THEN "none"
                           ELSE IF r.threw THEN "rejected" ELSE "sending",
                qTimer |-> NoTimer, qRegisteredAt |-> NoTimer,
                qError |-> NoError, qResult |-> NewMessage,
                socketError |-> FALSE ]
    IN  /\ Len(ops) < maxOps
        /\ now <= LastStart
        /\ ~thrown
        /\ ops' = Append(ops, op)
        /\ net' = net \cup HandedToSocket(to, r.buffers)
        /\ UNCHANGED <<now, ackResendTimeout, ignoreWantedAck, supportedCommands,
                       pendingAcks, pendingReassemblies, pendingResponses, rotateDue,
                       rxCount, lastRx, thrown, codecVars>>

StartSend(kind, to, type, command, id, data, wantAck, retries) ==
    StartSendWithin(MaxOps, kind, to, type, command, id, data, wantAck, retries)

\* options.retries: sendFragment reads it only when the message wants an ack
SendRetries(ack) == IF ack THEN 0..MaxRetries ELSE {0}

\* sendCommand( to , command , data , { ack , retries } )
SendCommand ==
    \E id \in EngineIds, data \in EngineData, ack \in BOOLEAN :
      \E retries \in SendRetries(ack) :
        StartSend("command", Peer, 67, CmdPing, id, data, ack, retries)

\* sendQuery( to , command , data , { ack , retries } )
SendQuery ==
    \E id \in EngineIds, data \in EngineData, ack \in BOOLEAN :
      \E retries \in SendRetries(ack) :
        StartSend("query", Peer, 81, CmdPing, id, data, ack, retries)

\* What the socket may report for a datagram
SocketError == [code |-> "ENETUNREACH", message |-> "send ENETUNREACH"]

\* A sendBuffer that rejects on a socket error: promise.reject( error )
SendBufferRejecting(error) == IF error THEN "rejected" ELSE "resolved"

\* The promise of sendBuffer once the callback of socket.send has run, with
\* or without an error: promise.resolve() in both branches
SendBuffer(error) == "resolved"

\* The await of a sendBuffer that rejected: sendFragment rejects with the
\* error before the ack mechanism, retryFn ends there
AwaitThrew(frag) ==
    IF frag.awaiting = "first"
    THEN [frag EXCEPT !.awaiting = "none", !.promise = "rejected",
                      !.error = SocketError]
    ELSE [frag EXCEPT !.awaiting = "none"]

\* The callback of socket.send for fragment i of op o, and what awaited it:
\* the rest of sendFragment (the pending ack and its timers) or of retryFn
SocketCallback(o, i) ==
    \E error \in BOOLEAN :
    LET op == ops[o]
        frag == op.frags[i]
        sent == SendBuffer(error) = "resolved"
        frag2 == IF ~sent THEN AwaitThrew(frag)
                 ELSE IF frag.awaiting = "first"
                 THEN RegisterAck(frag, op.message.wantAck)
                 ELSE AfterResend(frag)
        op2 == SettleOp([op EXCEPT !.frags[i] = frag2,
                                   !.socketError = @ \/ error])
    IN  /\ frag.awaiting # "none"
        /\ ~thrown
        /\ ops' = [ops EXCEPT ![o] = op2]
        /\ pendingAcks' =
              IF sent /\ frag.awaiting = "first" /\ op.message.wantAck
              THEN CacheSet(pendingAcks, GetAckId(op.message, op.to, i - 1), <<o, i>>)
              ELSE pendingAcks
        /\ pendingResponses' = ResponsesAfterSettle(o, op, op2)
        /\ UNCHANGED <<now, ackResendTimeout, ignoreWantedAck, supportedCommands,
                       pendingReassemblies, rotateDue, net, rxCount, lastRx, thrown, codecVars>>

\* The resend timer of fragment i of op o fires: retryFn
RetryTimer(o, i) ==
    LET frag == ops[o].frags[i]
    IN  /\ frag.retryTimer # NoTimer
        /\ frag.retryTimer <= now
        /\ ~thrown
        /\ ops' = [ops EXCEPT ![o].frags[i] = RetryFn(frag)]
        /\ UNCHANGED <<now, ackResendTimeout, ignoreWantedAck, supportedCommands,
                       pendingAcks, pendingReassemblies, pendingResponses, rotateDue, net,
                       rxCount, lastRx, thrown, codecVars>>

\* The ack timeout of fragment i of op o fires:
\* ack.reject( new common.TimeoutError( "Ack timeout" ) )
AckTimeout(o, i) ==
    LET op == ops[o]
        frag == op.frags[i]
        op2 == SettleOp([op EXCEPT !.frags[i] =
                            [RejectAck(frag, TimeoutError("Ack timeout"))
                                EXCEPT !.timeoutTimer = NoTimer]])
    IN  /\ frag.timeoutTimer # NoTimer
        /\ frag.timeoutTimer <= now
        /\ ~thrown
        /\ ops' = [ops EXCEPT ![o] = op2]
        /\ pendingResponses' = ResponsesAfterSettle(o, op, op2)
        /\ UNCHANGED <<now, ackResendTimeout, ignoreWantedAck, supportedCommands,
                       pendingAcks, pendingReassemblies, rotateDue, net, rxCount,
                       lastRx, thrown, codecVars>>

\* The response timeout of query o fires:
\* responsePromise.reject( new common.TimeoutError( "Response timeout" ) )
ResponseTimeout(o) ==
    /\ ops[o].qTimer # NoTimer
    /\ ops[o].qTimer <= now
    /\ ~thrown
    /\ ops' = [ops EXCEPT ![o].qTimer = NoTimer,
                          ![o].qState = IF @ = "waiting" THEN "rejected" ELSE @,
                          ![o].qError = IF ops[o].qState = "waiting"
                                        THEN TimeoutError("Response timeout") ELSE @]
    /\ UNCHANGED <<now, ackResendTimeout, ignoreWantedAck, supportedCommands,
                   pendingAcks, pendingReassemblies, pendingResponses, rotateDue, net,
                   rxCount, lastRx, thrown, codecVars>>

CacheOf(c) ==
    CASE c = "acks" -> pendingAcks
      [] c = "reassemblies" -> pendingReassemblies
      [] c = "responses" -> pendingResponses

\* The scheduled rotation of a cache
Rotate(c) ==
    /\ rotateDue[c] <= now
    /\ CacheKeys(CacheOf(c)) # {}
    /\ ~thrown
    /\ rotateDue' = [rotateDue EXCEPT ![c] = @ + RotationPeriod(ForgetTimeoutOf(c))]
    /\ pendingAcks' = IF c = "acks" THEN CacheRotate(pendingAcks) ELSE pendingAcks
    /\ pendingReassemblies' = IF c = "reassemblies"
                              THEN CacheRotate(pendingReassemblies)
                              ELSE pendingReassemblies
    /\ pendingResponses' = IF c = "responses" THEN CacheRotate(pendingResponses)
                           ELSE pendingResponses
    /\ UNCHANGED <<now, ackResendTimeout, ignoreWantedAck, supportedCommands,
                   ops, net, rxCount,
                   lastRx, thrown, codecVars>>

\* A socket callback, a timer or a rotation that has to run before the clock
\* moves on: a send completes within the tick that started it
TimerDue ==
    \/ \E o \in 1..Len(ops) :
          \/ ops[o].qTimer # NoTimer /\ ops[o].qTimer <= now
          \/ \E i \in 1..Len(ops[o].frags) :
                \/ ops[o].frags[i].awaiting # "none"
                \/ ops[o].frags[i].retryTimer # NoTimer
                   /\ ops[o].frags[i].retryTimer <= now
                \/ ops[o].frags[i].timeoutTimer # NoTimer
                   /\ ops[o].frags[i].timeoutTimer <= now
    \/ \E c \in Caches : rotateDue[c] <= now /\ CacheKeys(CacheOf(c)) # {}

\* The clock moves on by one tick.  The rotation of an empty cache changes
\* nothing: it is counted here.
TickUpTo(last) ==
    /\ now < last
    /\ ~TimerDue
    /\ ~thrown
    /\ now' = now + 1
    /\ rotateDue' = [c \in Caches |->
                        IF rotateDue[c] <= now
                        THEN rotateDue[c] + RotationPeriod(ForgetTimeoutOf(c))
                        ELSE rotateDue[c]]
    /\ UNCHANGED <<ackResendTimeout, ignoreWantedAck, supportedCommands,
                   ops, pendingAcks,
                   pendingReassemblies, pendingResponses, net, rxCount, lastRx,
                   thrown, codecVars>>

Tick == TickUpTo(MaxTime)

-----------------------------------------------------------------------------
(* Inbound datagrams                                                        *)

\* What a peer running the same engine answers to a datagram that wants an
\* ack: sendAckFor
PeerAck(buffer) ==
    Encode(ToAck(Decode(buffer, Self, DefaultSignature, Null).message), 0).buffers[1]

\* A response sent under an id of its own, as the other sends are
SendResponseForOwnId(forMessage, data) ==
    [threw |-> forMessage.type \notin DOMAIN RESPONSE_TYPE_FOR,
     to |-> forMessage.sender,
     buffers |-> IF forMessage.type \notin DOMAIN RESPONSE_TYPE_FOR THEN <<>>
                 ELSE Encode(CreateMessage(DefaultSignature, FALSE,
                                           RESPONSE_TYPE_FOR[forMessage.type],
                                           forMessage.command, IntId(0, 1), data, FALSE),
                             MaxPacketSize - UDP_IP_HEADER_SIZE).buffers]

\* sendResponseFor( forMessage , data ) without options: whether it threw,
\* whom the buffers go to, and the buffers handed to the socket
SendResponseFor(forMessage, data) ==
    IF forMessage.type \notin DOMAIN RESPONSE_TYPE_FOR
    THEN [threw |-> TRUE, to |-> forMessage.sender, buffers |-> <<>>]
    ELSE [threw |-> FALSE, to |-> forMessage.sender,
          buffers |-> Encode(CreateMessage(DefaultSignature, FALSE,
                                           RESPONSE_TYPE_FOR[forMessage.type],
                                           forMessage.command, forMessage.id,
                                           data, FALSE),
                             MaxPacketSize - UDP_IP_HEADER_SIZE).buffers]

\* What a peer answers to the message of op o, as it received it:
\* sendResponseFor, with or without a payload
PeerResponses(o) ==
    LET q == Decode(ops[o].frags[1].buffer, Self, DefaultSignature, Null).message
    IN  UNION { { [sender |-> ops[o].to, buffer |-> r.buffers[i]]
                  : i \in 1..Len(r.buffers) }
                : r \in { SendResponseFor(q, data) : data \in EngineData } }

Other == [address |-> "10.0.0.3", port |-> 4000]

\* "pong"
CmdPong == <<112, 111, 110, 103>>

\* Buffers Message.decode has to turn down: too short, a separator byte that
\* is not 0, another signature, an unknown type, an ack or a nack that wants
\* an ack, an ack or a nack with data, compressed or encrypted without data,
\* HAS_DATA and nothing after the header, no HAS_DATA and a byte too many,
\* FRAGMENTED without its fragment block
Malformed ==
    LET m == [NewMessage EXCEPT !.type = 67, !.command = CmdPing, !.id = IntId(0, 20)]
        head(flags) == HeadBuffer(m, flags, <<>>)
    IN  { Slice(head(0), 0, MIN_HEADER_SIZE - 1),
          [head(0) EXCEPT ![4] = 1],
          [head(0) EXCEPT ![2] = 88],
          [head(0) EXCEPT ![7] = 90],
          head(FLAG_WANT_ACK + FLAG_IS_ACK),
          head(FLAG_WANT_ACK + FLAG_IS_NACK),
          head(FLAG_HAS_DATA + FLAG_IS_ACK) \o <<1>>,
          head(FLAG_HAS_DATA + FLAG_IS_NACK) \o <<1>>,
          head(FLAG_COMPRESSED_DATA),
          head(FLAG_ENCRYPTED_DATA),
          head(FLAG_HAS_DATA),
          head(0) \o <<1>>,
          head(FLAG_FRAGMENTED) }

\* Datagrams nobody asked for: a command that wants an ack, the two fragments
\* of a command that wants an ack, the three fragments of another, a response
\* to no query, a fragment without a payload, a command of a session, a command named pong, the ack
\* of a command never sent, a fragment numbered 2 of the two-fragment command
\* (its fragments are 0 and 1), and the malformed ones
Unsolicited ==
    LET cmd == Encode(CreateMessage(DefaultSignature, TRUE, 67, CmdPing, IntId(0, 9),
                                    DataString(3, 1), FALSE), 0).buffers
        big == Encode(CreateMessage(DefaultSignature, TRUE, 67, CmdPing, IntId(0, 10),
                                    DataString(20, 7), FALSE),
                      MaxPacketSize - UDP_IP_HEADER_SIZE).buffers
        resp == Encode(CreateMessage(DefaultSignature, FALSE, 82, CmdPing, IntId(0, 8),
                                     Undefined, FALSE), 0).buffers
        bare == HeadBuffer([NewMessage EXCEPT !.type = 67, !.command = CmdPing,
                                              !.id = IntId(0, 11)],
                           FLAG_FRAGMENTED, UInt16BE(0) \o UInt16BE(1))
        sess == Encode([CreateMessage(DefaultSignature, TRUE, 67, CmdPing, IntId(0, 13),
                                      DataString(3, 5), FALSE)
                          EXCEPT !.sessionId = CHOOSE id \in SessionIds : TRUE],
                       0).buffers
        huge == Encode(CreateMessage(DefaultSignature, TRUE, 67, CmdPing, IntId(0, 12),
                                     DataString(33, 9), FALSE),
                       MaxPacketSize - UDP_IP_HEADER_SIZE).buffers
        pong == Encode(CreateMessage(DefaultSignature, TRUE, 67, CmdPong, IntId(0, 14),
                                     Undefined, FALSE), 0).buffers
        beyond == [big[2] EXCEPT ![MIN_HEADER_SIZE + 2] = 2]
    IN  { [sender |-> Peer, buffer |-> b]
          : b \in {cmd[1], big[1], big[2], huge[1], huge[2], huge[3], resp[1],
                   bare, sess[1], pong[1], PeerAck(cmd[1]), beyond} \cup Malformed }

\* The replies that may come in: the acks of the peer, and of another
\* endpoint, for what was sent, and the responses to the queries
Replies ==
    { [sender |-> Peer, buffer |-> PeerAck(dg.buffer)]
      : dg \in { d \in net : HasFlag(ReadUInt16BE(d.buffer, 4), FLAG_WANT_ACK) } }
    \cup { [sender |-> Other, buffer |-> PeerAck(ops[o].frags[1].buffer)]
           : o \in { p \in 1..Len(ops) : ops[p].message.wantAck } }
    \cup UNION { PeerResponses(o) : o \in 1..Len(ops) }

-----------------------------------------------------------------------------
(* The dispatcher                                                           *)

\* A dispatch that keeps a response nobody waits for away from the listeners
ReceiveFullMessageDroppingStray(message, rx) ==
    LET responseId == GetResponseId(message, message.sender)
        isResponse == message.type = 82
        found == isResponse /\ CacheHas(pendingResponses, responseId)
        o == CacheGet(pendingResponses, responseId)
    IN  /\ pendingResponses' = IF found THEN CacheDelete(pendingResponses, responseId)
                               ELSE pendingResponses
        /\ ops' = IF found /\ ops[o].qState = "waiting"
                  THEN [ops EXCEPT ![o].qState = "resolved", ![o].qResult = message,
                                   ![o].qTimer = NoTimer]
                  ELSE ops
        /\ lastRx' = [rx EXCEPT
                        !.full = message, !.isFull = TRUE,
                        !.responseFound = found,
                        !.strayResponse = isResponse /\ ~found,
                        !.resolvedOp = IF found THEN o ELSE 0,
                        !.events = IF isResponse /\ ~found THEN <<>>
                                   ELSE << [emitter |-> "this", name |-> EvMessage],
                                           [emitter |-> "incoming",
                                            name |-> <<message.type>> \o message.command] >>]
        /\ thrown' = thrown

\* A dispatch that keeps the copy of the datagram before it away from the
\* listeners
ReceiveFullMessageOnce(message, rx) ==
    LET responseId == GetResponseId(message, message.sender)
        isResponse == message.type = 82
        found == ~rx.again /\ isResponse /\ CacheHas(pendingResponses, responseId)
        o == CacheGet(pendingResponses, responseId)
    IN  /\ pendingResponses' = IF found THEN CacheDelete(pendingResponses, responseId)
                               ELSE pendingResponses
        /\ ops' = IF found /\ ops[o].qState = "waiting"
                  THEN [ops EXCEPT ![o].qState = "resolved", ![o].qResult = message,
                                   ![o].qTimer = NoTimer]
                  ELSE ops
        /\ lastRx' = IF rx.again THEN rx
                      ELSE [rx EXCEPT
                        !.full = message, !.isFull = TRUE,
                        !.responseFound = found,
                        !.strayResponse = isResponse /\ ~found,
                        !.resolvedOp = IF found THEN o ELSE 0,
                        !.events = << [emitter |-> "this", name |-> EvMessage],
                                      [emitter |-> "incoming",
                                       name |-> <<message.type>> \o message.command] >>]
        /\ thrown' = thrown

\* receiveFullMessage( message ): rx is what receive did so far
ReceiveFullMessage(message, rx) ==
    LET responseId == GetResponseId(message, message.sender)
        isResponse == message.type = 82
        found == isResponse /\ CacheHas(pendingResponses, responseId)
        o == CacheGet(pendingResponses, responseId)
    IN  /\ pendingResponses' = IF found THEN CacheDelete(pendingResponses, responseId)
                               ELSE pendingResponses
        /\ ops' = IF found /\ ops[o].qState = "waiting"
                  THEN [ops EXCEPT ![o].qState = "resolved", ![o].qResult = message,
                                   ![o].qTimer = NoTimer]
                  ELSE ops
        /\ lastRx' = [rx EXCEPT
                        !.full = message, !.isFull = TRUE,
                        !.responseFound = found,
                        !.strayResponse = isResponse /\ ~found,
                        !.resolvedOp = IF found THEN o ELSE 0,
                        !.events = << [emitter |-> "this", name |-> EvMessage],
                                      [emitter |-> "incoming",
                                       name |-> <<message.type>> \o message.command] >>]
        /\ thrown' = thrown

\* An ack looked up whoever sent it
ReceiveAckAnySender(message, rx) ==
    LET ackId == GetAckId(message, Peer, message.fragmentIndex)
        found == CacheHas(pendingAcks, ackId)
        ref == CacheGet(pendingAcks, ackId)
        op == ops[ref[1]]
        op2 == SettleOp([op EXCEPT !.frags[ref[2]] = ResolveAck(@)])
    IN  /\ pendingAcks' = IF found THEN CacheDelete(pendingAcks, ackId) ELSE pendingAcks
        /\ ops' = IF found THEN [ops EXCEPT ![ref[1]] = op2] ELSE ops
        /\ pendingResponses' = IF found THEN ResponsesAfterSettle(ref[1], op, op2)
                               ELSE pendingResponses
        /\ lastRx' = [rx EXCEPT !.ackFound = found, !.strayAck = ~found,
                                !.ackRef = IF found THEN ref ELSE <<0, 0>>]
        /\ UNCHANGED <<pendingReassemblies, thrown>>

\* An ack branch without its return: the ack goes on to the listeners
ReceiveAckThenDispatch(message, rx) ==
    LET ackId == GetAckId(message, message.sender, message.fragmentIndex)
        found == CacheHas(pendingAcks, ackId)
        ref == CacheGet(pendingAcks, ackId)
        op == ops[ref[1]]
        op2 == SettleOp([op EXCEPT !.frags[ref[2]] = ResolveAck(@)])
    IN  /\ pendingAcks' = IF found THEN CacheDelete(pendingAcks, ackId) ELSE pendingAcks
        /\ ops' = IF found THEN [ops EXCEPT ![ref[1]] = op2] ELSE ops
        /\ pendingResponses' = IF found THEN ResponsesAfterSettle(ref[1], op, op2)
                               ELSE pendingResponses
        /\ lastRx' = [rx EXCEPT !.ackFound = found, !.strayAck = ~found,
                                !.ackRef = IF found THEN ref ELSE <<0, 0>>,
                                !.isFull = TRUE, !.full = message,
                                !.events = << [emitter |-> "this", name |-> EvMessage],
                                              [emitter |-> "incoming",
                                               name |-> <<message.type>> \o message.command] >>]
        /\ UNCHANGED <<pendingReassemblies, thrown>>

\* receive( sender , buffer ) of an ack
ReceiveAck(message, rx) ==
    LET ackId == GetAckId(message, message.sender, message.fragmentIndex)
        found == CacheHas(pendingAcks, ackId)
        ref == CacheGet(pendingAcks, ackId)
        op == ops[ref[1]]
        op2 == SettleOp([op EXCEPT !.frags[ref[2]] = ResolveAck(@)])
    IN  /\ pendingAcks' = IF found THEN CacheDelete(pendingAcks, ackId) ELSE pendingAcks
        /\ ops' = IF found THEN [ops EXCEPT ![ref[1]] = op2] ELSE ops
        /\ pendingResponses' = IF found THEN ResponsesAfterSettle(ref[1], op, op2)
                               ELSE pendingResponses
        /\ lastRx' = [rx EXCEPT !.ackFound = found, !.strayAck = ~found,
                                !.ackRef = IF found THEN ref ELSE <<0, 0>>]
        /\ UNCHANGED <<pendingReassemblies, thrown>>

NoSlot == [filled |-> FALSE, message |-> NewMessage]

\* A test that lets the index one past the last slot through
TooBigByTwo(message, reassembly) == message.fragmentIndex > Len(reassembly)

\* if ( message.fragmentIndex >= reassembly.length )
TooBig(message, reassembly) == message.fragmentIndex >= Len(reassembly)

\* receive( sender , buffer ) of a fragment
ReceiveFragment(message, rx) ==
    LET reassemblyId == GetReassemblyId(message, message.sender)
        known == CacheHas(pendingReassemblies, reassemblyId)
        reassembly == IF known THEN CacheGet(pendingReassemblies, reassemblyId)
                      ELSE [i \in 1..message.fragments |-> NoSlot]
        cache == IF known THEN pendingReassemblies
                 ELSE CacheSet(pendingReassemblies, reassemblyId, reassembly)
        tooBig == TooBig(message, reassembly)
        filled == [reassembly EXCEPT ![message.fragmentIndex + 1] =
                                        [filled |-> TRUE, message |-> message]]
        complete == \A i \in 1..Len(filled) : filled[i].filled
        r == Reassemble([i \in 1..Len(filled) |-> filled[i].message])
    IN  IF tooBig
        THEN /\ pendingReassemblies' = cache
             /\ lastRx' = [rx EXCEPT !.fragmentDropped = TRUE]
             /\ UNCHANGED <<ops, pendingResponses, thrown>>
        ELSE /\ pendingReassemblies' = CacheMutate(cache, reassemblyId, filled)
             /\ IF ~complete
                THEN /\ lastRx' = rx
                     /\ UNCHANGED <<ops, pendingResponses, thrown>>
                ELSE IF r.threw
                THEN /\ lastRx' = rx
                     /\ thrown' = TRUE
                     /\ UNCHANGED <<ops, pendingResponses>>
                ELSE ReceiveFullMessage(r.message, [rx EXCEPT !.reassembled = TRUE])

\* An ack sent back whatever ignoreWantedAck says
AckWantedNeverIgnored(message) == ~message.isAck /\ message.wantAck

\* if ( message.wantAck && ! this.ignoreWantedAck ), for a message that is
\* not an ack: receive has returned before for an ack
AckWanted(message) == ~message.isAck /\ message.wantAck /\ ~ignoreWantedAck

\* receive( sender , buffer ), the handler of the socket's 'message' event
Receive(sender, buffer) ==
    LET d == Decode(buffer, sender, DefaultSignature, supportedCommands)
        message == d.message
        acking == AckWanted(message)
        rx == [NoRx EXCEPT
                 !.seen = TRUE, !.buffer = buffer,
                 !.again = lastRx.seen /\ lastRx.buffer = buffer,
                 !.decoded = d.ok,
                 !.message = message,
                 !.ackSent = d.ok /\ acking,
                 !.ackTo = IF d.ok /\ acking THEN message.sender ELSE NoEndpoint,
                 !.ackBuffer = IF d.ok /\ acking
                               THEN Encode(ToAck(message), 0).buffers[1] ELSE <<>>]
    IN  /\ ~thrown
        /\ rxCount' = rxCount + 1
        /\ UNCHANGED <<now, ackResendTimeout, ignoreWantedAck, supportedCommands,
                       rotateDue, net, codecVars>>
        /\ IF ~d.ok
           THEN /\ lastRx' = rx
                /\ UNCHANGED <<ops, pendingAcks, pendingReassemblies,
                               pendingResponses, thrown>>
           ELSE IF message.isAck
           THEN ReceiveAck(message, rx)
           ELSE IF ~message.fragmented
           THEN /\ ReceiveFullMessage(message, rx)
                /\ UNCHANGED <<pendingAcks, pendingReassemblies>>
           ELSE /\ ReceiveFragment(message, rx)
                /\ UNCHANGED pendingAcks

\* A reply to what the engine sent comes in
ReceiveReply ==
    /\ rxCount < MaxReceives
    /\ \E dg \in Replies : Receive(dg.sender, dg.buffer)

\* A datagram nobody asked for comes in
ReceiveUnsolicited ==
    /\ rxCount < MaxUnsolicited
    /\ \E dg \in Unsolicited : Receive(dg.sender, dg.buffer)

Next ==
    \/ SendCommand
    \/ SendQuery
    \/ \E o \in 1..Len(ops) : \E i \in 1..Len(ops[o].frags) : SocketCallback(o, i)
    \/ \E o \in 1..Len(ops) : \E i \in 1..Len(ops[o].frags) : RetryTimer(o, i)
    \/ \E o \in 1..Len(ops) : \E i \in 1..Len(ops[o].frags) : AckTimeout(o, i)
    \/ \E o \in 1..Len(ops) : ResponseTimeout(o)
    \/ \E c \in Caches : Rotate(c)
    \/ Tick
    \/ ReceiveReply

\* The engine sends, its peers reply
Spec == Init /\ [][Next]_vars

\* The clock runs long enough for every timer of a send to come due: the
\* ack timeout of a fragment, then the response timeout of the query
LiveMaxTime == LastStart + AckForgetTimeout + ResponseForgetTimeout

LiveTick == TickUpTo(LiveMaxTime)

\* What the event loop runs without anyone asking: the callbacks of the
\* socket, the timers that are due, the rotations, and the clock
Scheduled ==
    \/ \E o \in 1..Len(ops) : \E i \in 1..Len(ops[o].frags) : SocketCallback(o, i)
    \/ \E o \in 1..Len(ops) : \E i \in 1..Len(ops[o].frags) : RetryTimer(o, i)
    \/ \E o \in 1..Len(ops) : \E i \in 1..Len(ops[o].frags) : AckTimeout(o, i)
    \/ \E o \in 1..Len(ops) : ResponseTimeout(o)
    \/ \E c \in Caches : Rotate(c)
    \/ LiveTick

LiveNext ==
    \/ SendCommand
    \/ SendQuery
    \/ Scheduled
    \/ ReceiveReply

\* The engine sends and its peers reply, or not, while the event loop keeps
\* running what is due
SpecLive == Init /\ [][LiveNext]_vars /\ WF_vars(Scheduled)

\* Two sends outstanding at once, to one endpoint or two, under one id or
\* two: createMessageWithAck( 'C' , 'ping' , id , data ) and sendMessage
TwinOps == MaxOps + 1

TwinInit ==
    /\ now = 0
    /\ ackResendTimeout = 1
    /\ ignoreWantedAck = FALSE
    /\ supportedCommands = SupportedCommands
    /\ ops = <<>>
    /\ pendingAcks = EmptyCache
    /\ pendingReassemblies = EmptyCache
    /\ pendingResponses = EmptyCache
    /\ rotateDue = [c \in Caches |-> RotationPeriod(ForgetTimeoutOf(c))]
    /\ net = {}
    /\ rxCount = 0
    /\ lastRx = NoRx
    /\ thrown = FALSE
    /\ CodecIdle

\* The first send goes to the peer under the id 7; the one that follows goes
\* to the peer or to another endpoint, under the same id or another
TwinSend ==
    \E to \in {Peer, Other}, id \in {IntId(0, 7), IntId(0, 8)}, data \in EngineData :
        /\ ops = <<>> => to = Peer /\ id = IntId(0, 7)
        /\ StartSendWithin(TwinOps, "command", to, 67, CmdPing, id, data, TRUE, 0)

TwinNext ==
    \/ TwinSend
    \/ \E o \in 1..Len(ops) : \E i \in 1..Len(ops[o].frags) : SocketCallback(o, i)
    \/ \E o \in 1..Len(ops) : \E i \in 1..Len(ops[o].frags) : AckTimeout(o, i)
    \/ \E c \in Caches : Rotate(c)
    \/ Tick
    \/ ReceiveReply

SpecTwin == TwinInit /\ [][TwinNext]_vars

\* An engine that serves: it may ignore the wanted acks and may have a list
\* of commands
RxInit ==
    /\ now = 0
    /\ ackResendTimeout = 1
    /\ ignoreWantedAck \in BOOLEAN
    /\ supportedCommands \in {Null, <<{CmdPing}>>}
    /\ ops = <<>>
    /\ pendingAcks = EmptyCache
    /\ pendingReassemblies = EmptyCache
    /\ pendingResponses = EmptyCache
    /\ rotateDue = [c \in Caches |-> RotationPeriod(ForgetTimeoutOf(c))]
    /\ net = {}
    /\ rxCount = 0
    /\ lastRx = NoRx
    /\ thrown = FALSE
    /\ CodecIdle

RxNext ==
    \/ ReceiveUnsolicited
    \/ \E c \in Caches : Rotate(c)
    \/ Tick

\* The engine serves what comes in
SpecRx == RxInit /\ [][RxNext]_vars

\* No engine run
EngineIdle ==
    /\ now = 0 /\ ackResendTimeout = 1 /\ ignoreWantedAck = FALSE
    /\ supportedCommands = SupportedCommands
    /\ ops = <<>>
    /\ pendingAcks = EmptyCache /\ pendingReassemblies = EmptyCache
    /\ pendingResponses = EmptyCache
    /\ rotateDue = [c \in Caches |-> RotationPeriod(ForgetTimeoutOf(c))]
    /\ net = {} /\ rxCount = 0 /\ lastRx = NoRx /\ thrown = FALSE

-----------------------------------------------------------------------------
(* Codec runs: a message is built, encoded, each buffer decoded by the      *)
(* receiving side, and the fragments reassembled.                           *)

MinBufferSize == 34

CodecBufferSizes == {0} \cup (MinBufferSize .. MinBufferSize + BufferSizes)

\* Ids: two integers, a number with a fractional part, a number above 2^32 - 1
CodecIds ==
    { IntId(0, 1), IntId(4660, 22136),
      [hi |-> 4660, lo |-> 22136, frac |-> 1], IntId(65536, 5) }

\* Messages as the API builds them (_createMessage, toAck): a data or
\* dataless message, or an ack/nack that may refer to a fragment
CodecMessages ==
    LET base == { [NewMessage EXCEPT !.type = t, !.command = CmdPing, !.id = n,
                                     !.sessionId = s]
                    : t \in {67, 82}, n \in CodecIds, s \in {Null} \cup SessionIds }
        plain == { [b EXCEPT !.wantAck = w] : b \in base, w \in BOOLEAN }
        withData == { [SetData(b, DataString(k, 11)) EXCEPT !.compressedData = f[1],
                                                            !.encryptedData = f[2]]
                        : b \in plain, k \in 1..MaxDataLen,
                          f \in {<<FALSE, FALSE>>, <<TRUE, FALSE>>, <<FALSE, TRUE>>} }
        acks == { [b EXCEPT !.isAck = a, !.isNack = ~a, !.fragmented = fr[1],
                            !.fragmentIndex = fr[2], !.fragments = fr[3]]
                    : b \in base, a \in BOOLEAN,
                      fr \in {<<FALSE, 0, 1>>, <<TRUE, 1, 3>>, <<TRUE, 258, 515>>} }
    IN  plain \cup withData \cup acks

CodecInit ==
    /\ cOrig \in CodecMessages
    /\ cMsg = cOrig
    /\ cMax \in CodecBufferSizes
    /\ cPc = "new"
    /\ cBuffers = <<>>
    /\ cDecoded = <<>>
    /\ cReasm = NewMessage
    /\ EngineIdle

\* buffers = message.encode( maxBufferSize )
CodecEncode ==
    /\ cPc = "new"
    /\ LET r == Encode(cMsg, cMax)
       IN  /\ cMsg' = r.message
           /\ cBuffers' = r.buffers
           /\ cPc' = IF r.threw THEN "threw" ELSE "encoded"
    /\ UNCHANGED <<cOrig, cMax, cDecoded, cReasm, engineVars>>

\* Message.decode( buffer , sender , protocolSignature ) on every buffer
CodecDecode ==
    /\ cPc = "encoded"
    /\ cDecoded' = [i \in 1..Len(cBuffers) |->
                        Decode(cBuffers[i], Peer, cMsg.protocolSignature, Null)]
    /\ cPc' = "decoded"
    /\ UNCHANGED <<cOrig, cMsg, cMax, cBuffers, cReasm, engineVars>>

\* Message.reassemble( fragments ) once every fragment is decoded
CodecReassemble ==
    /\ cPc = "decoded"
    /\ Len(cDecoded) >= 2
    /\ \A i \in 1..Len(cDecoded) : cDecoded[i].ok
    /\ LET r == Reassemble([i \in 1..Len(cDecoded) |-> cDecoded[i].message])
       IN  /\ ~r.threw
           /\ cReasm' = r.message
    /\ cPc' = "reassembled"
    /\ UNCHANGED <<cOrig, cMsg, cMax, cBuffers, cDecoded, engineVars>>

CodecNext == CodecEncode \/ CodecDecode \/ CodecReassemble

SpecCodec == CodecInit /\ [][CodecNext]_vars

-----------------------------------------------------------------------------
(* Payload runs: the payload methods of Message, encode and decode called   *)
(* on one message in any order.  cMsg is the message at hand, cBuffers what *)
(* its last encode returned.                                                *)

PayloadData == { DataString(3, 5), DataString(20, 3) }

\* Buffers given to setDataBuffer: a serialized value, bare or deflated; the
\* deflated one only to a message that says its data is compressed
PayloadBuffers(m) ==
    { Serialize(d) : d \in PayloadData }
    \cup (IF m.compressedData THEN { DeflateRaw(Serialize(d)) : d \in PayloadData }
          ELSE {})

PayloadInit ==
    /\ cMsg \in { CreateMessage(DefaultSignature, FALSE, 67, CmdPing, IntId(0, 1),
                                data, compressed)
                  : data \in {Undefined} \cup PayloadData, compressed \in BOOLEAN }
    /\ cOrig = cMsg
    /\ cMax = 0
    /\ cPc = "new"
    /\ cBuffers = <<>>
    /\ cDecoded = <<>>
    /\ cReasm = NewMessage
    /\ EngineIdle

\* message.setData( data )
PaySetData ==
    /\ \E data \in PayloadData : cMsg' = SetData(cMsg, data)
    /\ cPc' = "setData"
    /\ UNCHANGED <<cOrig, cMax, cBuffers, cDecoded, cReasm, engineVars>>

\* message.setDataBuffer( dataBuffer )
PaySetDataBuffer ==
    /\ \E dataBuffer \in PayloadBuffers(cMsg) : cMsg' = SetDataBuffer(cMsg, dataBuffer)
    /\ cPc' = "setDataBuffer"
    /\ UNCHANGED <<cOrig, cMax, cBuffers, cDecoded, cReasm, engineVars>>

\* message.clearDataBuffer()
PayClearDataBuffer ==
    /\ cMsg' = ClearDataBuffer(cMsg)
    /\ cPc' = "clearDataBuffer"
    /\ UNCHANGED <<cOrig, cMax, cBuffers, cDecoded, cReasm, engineVars>>

\* message.encodeData() of a message that has data or a buffer already
PayEncodeData ==
    /\ cMsg.data # Undefined \/ cMsg.encoded
    /\ cMsg' = EncodeData(cMsg)
    /\ cPc' = "encodeData"
    /\ UNCHANGED <<cOrig, cMax, cBuffers, cDecoded, cReasm, engineVars>>

\* message.decodeData()
PayDecodeData ==
    /\ cMsg' = DecodeData(cMsg)
    /\ cPc' = "decodeData"
    /\ UNCHANGED <<cOrig, cMax, cBuffers, cDecoded, cReasm, engineVars>>

\* message.encode( maxBufferSize ), whole or in fragments
PayEncode ==
    /\ \E maxBufferSize \in {0, MinBufferSize + 2} :
          LET r == Encode(cMsg, maxBufferSize)
          IN  /\ ~r.threw
              /\ cMsg' = r.message
              /\ cBuffers' = r.buffers
    /\ cPc' = "encode"
    /\ UNCHANGED <<cOrig, cMax, cDecoded, cReasm, engineVars>>

\* Message.decode( buffer , sender , protocolSignature ) of a buffer the last
\* encode returned: the message at hand is now the decoded one
PayDecode ==
    /\ \E i \in 1..Len(cBuffers) :
          LET r == Decode(cBuffers[i], Peer, DefaultSignature, Null)
          IN  /\ r.ok
              /\ cMsg' = r.message
    /\ cPc' = "decode"
    /\ UNCHANGED <<cOrig, cMax, cBuffers, cDecoded, cReasm, engineVars>>

PayloadNext ==
    \/ PaySetData
    \/ PaySetDataBuffer
    \/ PayClearDataBuffer
    \/ PayEncodeData
    \/ PayDecodeData
    \/ PayEncode
    \/ PayDecode

SpecPayload == PayloadInit /\ [][PayloadNext]_vars

-----------------------------------------------------------------------------
(* Claims about the codec, checked under SpecCodec                          *)

\* The header size of an emitted buffer of the current run
CodecHeaderSize ==
    MIN_HEADER_SIZE + (IF cMsg.sessionId # Null THEN SESSION_SIZE ELSE 0)
        + (IF cMsg.fragmented THEN 4 ELSE 0)

\* The payload bytes buffer i of the current run carries
CodecPayload(i) == Slice(cBuffers[i], CodecHeaderSize, Len(cBuffers[i]))

SameHeaderFields(a, b) ==
    /\ a.type = b.type /\ a.command = b.command /\ a.id = b.id
    /\ a.compressedData = b.compressedData /\ a.encryptedData = b.encryptedData
    /\ a.sessionId = b.sessionId

SameAckFields(a, b) ==
    /\ a.wantAck = b.wantAck /\ a.isAck = b.isAck /\ a.isNack = b.isNack
    /\ a.fragmented = b.fragmented /\ a.fragmentIndex = b.fragmentIndex
    /\ a.fragments = b.fragments

\* C8 (as claimed): the reassembly of the decoded fragments of encode(m, mtu)
\* equals m in type, command, id, want_ack and the other flags, session id
\* and payload, with reassembled = true
C8_ReassembleEqualsOriginal ==
    (cPc = "reassembled" /\ cOrig.id.frac = 0) =>
        /\ SameHeaderFields(cReasm, cOrig)
        /\ SameAckFields(cReasm, cOrig)
        /\ cReasm.dataBuffer = cMsg.dataBuffer
        /\ DecodeData(cReasm).data = cOrig.data
        /\ cReasm.reassembled

\* C8 (amended): the reassembly equals m in type, command, id, compressed and
\* encrypted flags, session id and payload, with reassembled = true; want_ack
\* is not carried over, the reassembled message never wants an ack
C8_ReassembleKeepsAllButWantAck ==
    (cPc = "reassembled" /\ cOrig.id.frac = 0) =>
        /\ SameHeaderFields(cReasm, cOrig)
        /\ SameAckFields(cReasm, [cOrig EXCEPT !.wantAck = FALSE])
        /\ cReasm.dataBuffer = cMsg.dataBuffer
        /\ DecodeData(cReasm).data = cOrig.data
        /\ cReasm.reassembled

C8_Witness ==
    /\ cPc = "reassembled" /\ Len(cBuffers) >= 3
    /\ cOrig.wantAck /\ cOrig.compressedData /\ cOrig.sessionId # Null
    /\ cOrig.id = IntId(4660, 22136)

\* C9: for a well-formed message m that is not fragmented, decode of
\* encode(m, 0)[0] succeeds and gives back type, command, id, want_ack, is_ack,
\* is_nack, fragmented, compressed, encrypted, session id, fragment_index,
\* fragments_total and the payload bytes of m
C9_RoundTrip ==
    (cPc = "decoded" /\ cMax = 0 /\ cOrig.id.frac = 0) =>
        /\ Len(cBuffers) = 1
        /\ cDecoded[1].ok
        /\ SameHeaderFields(cDecoded[1].message, cOrig)
        /\ SameAckFields(cDecoded[1].message, cOrig)
        /\ cDecoded[1].message.dataBuffer = cMsg.dataBuffer
        /\ DecodeData(cDecoded[1].message).data = cOrig.data
        /\ cDecoded[1].message.sender = Peer

C9_Witness ==
    /\ cPc = "decoded" /\ cMax = 0 /\ cOrig.id = IntId(4660, 22136)
    /\ cOrig.isAck /\ cOrig.fragmented /\ cOrig.fragmentIndex = 258
    /\ cOrig.sessionId # Null /\ cDecoded[1].ok

\* C10: when encode fragments, the payload slices of the buffers, in
\* fragment_index order, make up the encoded payload byte for byte, none is
\* empty, and every header carries its index and a fragments_total equal to
\* the number of buffers and to ceil(L / fragment_size)
C10_FragmentCover ==
    (cPc = "encoded" /\ Len(cBuffers) >= 2) =>
        /\ Concat([i \in 1..Len(cBuffers) |-> CodecPayload(i)]) = cMsg.dataBuffer
        /\ \A i \in 1..Len(cBuffers) :
              /\ Len(CodecPayload(i)) >= 1
              /\ ReadUInt16BE(cBuffers[i], CodecHeaderSize - 4) = i - 1
              /\ ReadUInt16BE(cBuffers[i], CodecHeaderSize - 2) = Len(cBuffers)
        /\ Len(cBuffers) = CeilDiv(Len(cMsg.dataBuffer), Len(CodecPayload(1)))
        /\ Len(cBuffers) = cMsg.fragments

C10_Witness ==
    /\ cPc = "encoded" /\ Len(cBuffers) = 3
    /\ Len(CodecPayload(3)) < Len(CodecPayload(1))

\* The header size of the current run before encode decides to fragment
CodecBaseSize ==
    MIN_HEADER_SIZE + (IF cOrig.sessionId # Null THEN SESSION_SIZE ELSE 0)

\* encode has run on a message with a payload and a positive maxBufferSize,
\* and did not fail on the id
CodecSized ==
    /\ cPc \in {"encoded", "threw"}
    /\ cMax > 0
    /\ cOrig.data # Undefined
    /\ ~IdOutOfRange(cOrig.id)

\* The sizes of the buffers of the current run, for payload length L and
\* maxBufferSize B: fragmented exactly when header + L > B, no buffer longer
\* than B, ceil(L / (B - header - 4)) fragments of ceil(L / fragments) bytes,
\* the last one carrying the rest
CodecSizesRight ==
    LET L == Len(cMsg.dataBuffer)
        n == Len(cBuffers)
        total == CeilDiv(L, cMax - (CodecBaseSize + 4))
        size == CeilDiv(L, total)
    IN  /\ n >= 1
        /\ (n >= 2) <=> (CodecBaseSize + L > cMax)
        /\ cMsg.fragmented <=> (CodecBaseSize + L > cMax)
        /\ \A i \in 1..n : Len(cBuffers[i]) <= cMax
        /\ n >= 2 =>
              /\ n = total
              /\ \A i \in 1..n :
                    /\ Len(CodecPayload(i)) = IF i < n THEN size ELSE L - (n - 1) * size
                    /\ HasFlag(ReadUInt16BE(cBuffers[i], 4), FLAG_FRAGMENTED)
                    /\ ReadUInt16BE(cBuffers[i], CodecHeaderSize - 4) = i - 1
                    /\ ReadUInt16BE(cBuffers[i], CodecHeaderSize - 2) = total
                    /\ Slice(cBuffers[i], 6, 15) = Slice(cBuffers[1], 6, 15)

CodecRan == cPc \in {"encoded", "threw"} /\ ~IdOutOfRange(cOrig.id)

-----------------------------------------------------------------------------
(* Claims about sends and replies, checked under Spec                       *)

\* The receive step of this transition took in a full message that answers
\* query o: it comes from the endpoint the query went to and has type 'R' and
\* the command and the id of the query
ResponseTo(o) ==
    /\ rxCount' = rxCount + 1
    /\ lastRx'.isFull
    /\ lastRx'.full.type = 82
    /\ lastRx'.full.sender = ops[o].to
    /\ lastRx'.full.command = ops[o].message.command
    /\ lastRx'.full.id = ops[o].message.id

\* The receive step of this transition took in an ack that matches fragment i
\* of op o: same peer, type, command, id and fragment index/total
AckOf(o, i) ==
    /\ rxCount' = rxCount + 1
    /\ lastRx'.decoded
    /\ lastRx'.message.isAck
    /\ GetAckId(lastRx'.message, lastRx'.message.sender, lastRx'.message.fragmentIndex)
         = GetAckId(ops[o].message, ops[o].to, i - 1)

\* C1: from the call of sendQuery until its response timeout fires, a full
\* message from `to` with type 'R' and the command and id of the query
\* resolves the query's completion handle with that message, whatever the
\* order of the query's acks and the response
C1_ResponseResolvesQuery ==
    [][ \A o \in 1..Len(ops) :
          ( /\ ops[o].kind = "query"
            /\ ops[o].qState \in {"sending", "waiting"}
            /\ ResponseTo(o) )
          => /\ ops'[o].qState = "resolved"
             /\ ops'[o].qResult = lastRx'.full ]_vars

\* C2: a matching ack received after the datagram of a want-ack fragment was
\* handed to the socket and before its ack timeout fires resolves the
\* completion slot of the fragment: the pending ack is findable all that time
C2_AckResolvesFragment ==
    [][ \A o \in 1..Len(ops) : \A i \in 1..Len(ops[o].frags) :
          ( /\ ops[o].message.wantAck
            /\ ops[o].frags[i].ack \in {"none", "pending"}
            /\ AckOf(o, i) )
          => ops'[o].frags[i].ack = "resolved" ]_vars

\* C3 (as claimed): a want-ack fragment sent with retries = N whose ack never
\* came was handed to the socket exactly N + 1 times, whatever
\* ack_resend_timeout and ack_forget_timeout are
C3_ExactlyRetriesPlusOne ==
    \A o \in 1..Len(ops) : \A i \in 1..Len(ops[o].frags) :
        (ops[o].message.wantAck /\ ops[o].frags[i].ack = "rejected")
            => ops[o].frags[i].sent = ops[o].retries + 1

\* C3 (amended): a want-ack fragment sent with retries = N is handed to the
\* socket at most N + 1 times; when its ack never came, no attempt is later
\* than the ack timeout, all N + 1 attempts were made if
\* N * ack_resend_timeout < ack_forget_timeout, and fewer than N + 1 if
\* N * ack_resend_timeout > ack_forget_timeout
C3_BoundedRetries ==
    \A o \in 1..Len(ops) : \A i \in 1..Len(ops[o].frags) :
        LET frag == ops[o].frags[i]
            N == ops[o].retries
        IN  ops[o].message.wantAck =>
              /\ frag.sent <= N + 1
              /\ frag.ack = "rejected" =>
                    /\ frag.lastSent <= frag.settledAt
                    /\ N * ackResendTimeout < AckForgetTimeout => frag.sent = N + 1
                    /\ N * ackResendTimeout > AckForgetTimeout => frag.sent < N + 1

C3_Witness ==
    \E o \in 1..Len(ops) : \E i \in 1..Len(ops[o].frags) :
        /\ ops[o].message.wantAck /\ ops[o].retries = 2
        /\ ops[o].frags[i].ack = "rejected" /\ ops[o].frags[i].sent = 3

\* C4: once the pending ack of a fragment is resolved or rejected, no
\* datagram of that fragment is handed to the socket any more
C4_NoResendAfterSettled ==
    [][ \A o \in 1..Len(ops) : \A i \in 1..Len(ops[o].frags) :
          ops[o].frags[i].ack \in {"resolved", "rejected"}
            => ops'[o].frags[i].sent = ops[o].frags[i].sent ]_vars

\* A resend timer armed after the ack came has fired, and retryFn returned
\* at its done check
C4_Witness ==
    \E o \in 1..Len(ops) : \E i \in 1..Len(ops[o].frags) :
        /\ ops[o].frags[i].ack = "resolved"
        /\ ops[o].frags[i].skipped >= 1

\* C5: a want-ack fragment whose ack does not come is rejected with a
\* TimeoutError (code 'timeout') ack_forget_timeout after its pending ack was
\* registered, not before and not later; the error is the rejection of the
\* handle the caller got, nothing is thrown
C5_AckTimeoutRejects ==
    /\ ~thrown
    /\ \A o \in 1..Len(ops) : \A i \in 1..Len(ops[o].frags) :
          LET frag == ops[o].frags[i]
          IN  ops[o].message.wantAck =>
                /\ frag.ack = "pending" =>
                      /\ now <= frag.registeredAt + AckForgetTimeout
                      /\ frag.timeoutTimer = frag.registeredAt + AckForgetTimeout
                /\ frag.ack = "rejected" =>
                      /\ frag.error.code = "timeout"
                      /\ frag.settledAt = frag.registeredAt + AckForgetTimeout
                      /\ ops[o].sendState = "rejected"
                      /\ ops[o].sendError.code = "timeout"

C5_Witness ==
    \E o \in 1..Len(ops) :
        /\ ops[o].message.wantAck
        /\ ops[o].frags[1].ack = "rejected"
        /\ ops[o].sendState = "rejected"
        /\ now = ops[o].frags[1].registeredAt + AckForgetTimeout

\* C6: the handle sendMessage returns for a fragmented want-ack message is
\* resolved exactly when the ack of every fragment is resolved, and rejected
\* exactly when the ack of some fragment timed out
C6_AllFragmentAcks ==
    \A o \in 1..Len(ops) :
        (ops[o].message.wantAck /\ Len(ops[o].frags) >= 2) =>
            /\ ops[o].sendState = "resolved"
                 <=> \A i \in 1..Len(ops[o].frags) : ops[o].frags[i].ack = "resolved"
            /\ ops[o].sendState = "rejected"
                 <=> \E i \in 1..Len(ops[o].frags) : ops[o].frags[i].ack = "rejected"

C6_Witness ==
    \E o \in 1..Len(ops) :
        /\ ops[o].message.wantAck /\ Len(ops[o].frags) = 2
        /\ ops[o].sendState = "resolved"
        /\ ops[o].frags[1].settledAt < ops[o].frags[2].settledAt

\* The ack id of the ack received in this step
RxAckId ==
    GetAckId(lastRx'.message, lastRx'.message.sender, lastRx'.message.fragmentIndex)

\* C15: an ack whose ack id has no pending entry changes nothing: the three
\* caches are unchanged, no send is resolved or rejected, nothing is sent,
\* no event is emitted; an error is logged
C15_StrayAckChangesNothing ==
    [][ ( /\ rxCount' = rxCount + 1
          /\ lastRx'.decoded
          /\ lastRx'.message.isAck
          /\ ~CacheHas(pendingAcks, RxAckId) )
        => /\ UNCHANGED <<pendingAcks, pendingReassemblies, pendingResponses,
                          ops, net, thrown>>
           /\ ~lastRx'.ackSent /\ lastRx'.ackBuffer = <<>>
           /\ lastRx'.events = <<>> /\ ~lastRx'.isFull
           /\ lastRx'.strayAck /\ ~lastRx'.ackFound ]_vars

\* The ack of another endpoint came in while the ack of the peer was pending
C15_Witness ==
    /\ lastRx.strayAck
    /\ lastRx.message.sender = Other
    /\ CacheKeys(pendingAcks) # {}
    /\ \E o \in 1..Len(ops) : \E i \in 1..Len(ops[o].frags) :
          ops[o].frags[i].ack = "pending"

\* Query o has registered its waiter and no response has resolved it
Unanswered(o) ==
    /\ ops[o].kind = "query"
    /\ ops[o].qRegisteredAt # NoTimer
    /\ ops[o].qState # "resolved"

\* The waiter of an unanswered query rejects with a TimeoutError when
\* responseForgetTimeout has passed since it was registered, not before
QueryTimesOut(o) ==
    /\ ops[o].qState = "rejected" =>
          /\ ops[o].qError = [code |-> "timeout",
                              message |-> "Response timeout"]
          /\ now >= ops[o].qRegisteredAt + ResponseForgetTimeout
    /\ ops[o].qState = "waiting" => now <= ops[o].qRegisteredAt + ResponseForgetTimeout
    /\ now > ops[o].qRegisteredAt + ResponseForgetTimeout => ops[o].qState = "rejected"

\* C16: with no matching response, the handle of sendQuery rejects with a
\* TimeoutError (code timeout) once responseForgetTimeout has passed since
\* the waiter was registered, and from then on pendingResponses has no entry
\* under the response id of the query
C16_QueryTimeoutClearsEntry ==
    \A o \in 1..Len(ops) :
        Unanswered(o) =>
            /\ QueryTimesOut(o)
            /\ ops[o].qState = "rejected" =>
                  ~CacheHas(pendingResponses, GetResponseId(ops[o].message, ops[o].to))

\* C17: once a pending ack is settled, by its ack or by the ack timeout,
\* pendingAcks has no entry under its ack id, and an ack that comes in after
\* the timeout finds none: the entry an ack finds is never one of a rejected
\* pending ack
C17_SettledAckHasNoEntry ==
    /\ \A o \in 1..Len(ops) : \A i \in 1..Len(ops[o].frags) :
          ops[o].frags[i].ack \in {"resolved", "rejected"} =>
              ~CacheHas(pendingAcks, GetAckId(ops[o].message, ops[o].to, i - 1))
    /\ lastRx.ackFound =>
          ops[lastRx.ackRef[1]].frags[lastRx.ackRef[2]].error = NoError

\* C21: a full message that came in (a packet that is neither an ack nor a
\* fragment, or the fragment that completes a reassembly) makes the engine
\* emit 'message' once and then type + command once on the typed inbox, also
\* for a response nobody waits for; a response is looked up before, and
\* nothing else emits
C21_MessageThenTypedEvent ==
    lastRx.seen =>
        /\ lastRx.isFull <=>
              /\ lastRx.decoded /\ ~lastRx.message.isAck
              /\ ~lastRx.message.fragmented \/ lastRx.reassembled
        /\ lastRx.events =
              IF lastRx.isFull
              THEN << [emitter |-> "this", name |-> <<109, 101, 115, 115, 97, 103, 101>>],
                      [emitter |-> "incoming", name |-> Slice(lastRx.buffer, 6, 11)] >>
              ELSE <<>>
        /\ lastRx.isFull /\ lastRx.buffer[7] = 82 =>
              lastRx.responseFound \/ lastRx.strayResponse
        /\ lastRx.responseFound => lastRx.isFull /\ lastRx.resolvedOp \in 1..Len(ops)

\* A response in two fragments came in before its waiter was registered
C21_Witness ==
    /\ lastRx.isFull /\ lastRx.reassembled
    /\ lastRx.strayResponse
    /\ Len(lastRx.events) = 2
    /\ \E o \in 1..Len(ops) : ops[o].kind = "query"

\* C22: an error reported by the socket never fails a send: a send without
\* WANT_ACK still resolves, a send with WANT_ACK still registers its pending
\* ack and its timers, and a send can only be rejected by an ack timeout
C22_SocketErrorNeverFails ==
    \A o \in 1..Len(ops) :
        ops[o].socketError =>
            /\ \A i \in 1..Len(ops[o].frags) :
                  LET frag == ops[o].frags[i]
                  IN  /\ frag.awaiting # "first" =>
                            IF ops[o].message.wantAck
                            THEN /\ frag.registeredAt # NoTimer
                                 /\ frag.ack \in {"pending", "resolved", "rejected"}
                            ELSE frag.promise = "resolved"
                      /\ frag.ack = "pending" =>
                            frag.timeoutTimer = frag.registeredAt + AckForgetTimeout
                      /\ frag.promise = "rejected" =>
                            /\ frag.error.code = "timeout"
                            /\ now >= frag.registeredAt + AckForgetTimeout
            /\ ops[o].sendState = "rejected" => ops[o].sendError.code = "timeout"
            /\ ( /\ ~ops[o].message.wantAck
                 /\ \A i \in 1..Len(ops[o].frags) : ops[o].frags[i].awaiting = "none" )
               => ops[o].sendState = "resolved"

\* The socket reported an error for a datagram of a send that wants acks,
\* and the send was rejected by the ack timeout
C22_Witness ==
    \E o \in 1..Len(ops) :
        /\ ops[o].socketError
        /\ ops[o].message.wantAck
        /\ Len(ops[o].frags) = 2
        /\ ops[o].sendState = "rejected"
        /\ ops[o].sendError.code = "timeout"

\* The entry of cache under key
CacheEntry(cache, key) ==
    CHOOSE e \in UNION { cache[i] : i \in 1..CacheSectors } : e.key = key

\* The sector of cache that holds key
CacheSectorOf(cache, key) ==
    CHOOSE i \in 1..CacheSectors : \E e \in cache[i] : e.key = key

\* C24: in each of the three caches an entry that can be looked up at time
\* now was set at now - forgetTimeout or later, and to look an entry up does
\* not make it younger: a fragment that finds the slots of its message leaves
\* the entry in its sector, set when it was
C24_CacheAgeBound ==
    /\ [](\A c \in Caches : \A i \in 1..CacheSectors : \A e \in CacheOf(c)[i] :
            /\ e.at >= now - ForgetTimeoutOf(c)
            /\ e.at <= now
            /\ \A j \in 1..CacheSectors : \A f \in CacheOf(c)[j] :
                  f.key = e.key => f = e /\ j = i)
    /\ [][ ( /\ rxCount' = rxCount + 1
              /\ lastRx'.decoded /\ ~lastRx'.message.isAck
              /\ lastRx'.message.fragmented
              /\ CacheHas(pendingReassemblies,
                          GetReassemblyId(lastRx'.message, lastRx'.message.sender)) )
            => LET id == GetReassemblyId(lastRx'.message, lastRx'.message.sender)
               IN  /\ CacheHas(pendingReassemblies', id)
                   /\ CacheEntry(pendingReassemblies', id).at
                        = CacheEntry(pendingReassemblies, id).at
                   /\ CacheSectorOf(pendingReassemblies', id)
                        = CacheSectorOf(pendingReassemblies, id) ]_vars

\* A fragment found the slots of its message in the oldest sector of the
\* cache, set one forgetTimeout before
C24_Witness ==
    /\ lastRx.decoded /\ lastRx.message.fragmented /\ ~lastRx.message.isAck
    /\ \E e \in pendingReassemblies[CacheSectors] :
          /\ e.key = GetReassemblyId(lastRx.message, lastRx.message.sender)
          /\ \A i \in 1..Len(e.val) : e.val[i].filled
          /\ e.at = now - ReassemblyForgetTimeout
    /\ \E c \in {"acks", "responses"} : CacheKeys(CacheOf(c)) # {}

C26_NoTimerAfterCompletion ==
    \A o \in 1..Len(ops) :
        /\ ops[o].qState \in {"resolved", "rejected"} => ops[o].qTimer = NoTimer
        /\ \A i \in 1..Len(ops[o].frags) :
              ops[o].frags[i].ack \in {"resolved", "rejected"} =>
                  /\ ops[o].frags[i].retryTimer = NoTimer
                  /\ ops[o].frags[i].timeoutTimer = NoTimer

\* The buffers a message sent by the engine is encoded into
BuffersOfMessage(message) ==
    Encode(CreateMessage(DefaultSignature, message.wantAck, message.type,
                         message.command, message.id, message.data, FALSE),
           MaxPacketSize - UDP_IP_HEADER_SIZE).buffers

BuffersOf(o) == BuffersOfMessage(ops[o].message)

\* C27: the n datagrams of a message encoded into n fragments are all handed
\* to the socket by the call that sends it, while no ack of the message is
\* even pending, hence before any of them completes; the acks then complete
\* in any order and the send resolves only once every fragment has resolved
C27_AllSentBeforeAnyAck ==
    /\ [](\A o \in 1..Len(ops) :
            /\ Len(ops[o].frags) = Len(BuffersOf(o))
            /\ \A i \in 1..Len(ops[o].frags) :
                  /\ ops[o].frags[i].buffer = BuffersOf(o)[i]
                  /\ ops[o].frags[i].sent >= 1
                  /\ [to |-> ops[o].to, buffer |-> BuffersOf(o)[i]] \in net
            /\ ops[o].sendState = "resolved" =>
                  \A i \in 1..Len(ops[o].frags) :
                      /\ ops[o].frags[i].promise = "resolved"
                      /\ ops[o].message.wantAck => ops[o].frags[i].ack = "resolved")
    /\ [][Len(ops') = Len(ops) + 1 =>
            LET o == Len(ops')
                b == BuffersOfMessage(ops'[o].message)
            IN  /\ \A i \in 1..Len(b) : [to |-> ops'[o].to, buffer |-> b[i]] \in net'
                /\ \A i \in 1..Len(ops'[o].frags) :
                      ops'[o].frags[i].ack = "none"
                /\ ops'[o].sendState # "resolved"]_vars

\* A message in two fragments whose second ack completed before the first,
\* the send resolving with the first
C27_Witness ==
    \E o \in 1..Len(ops) :
        /\ ops[o].message.wantAck /\ Len(ops[o].frags) = 2
        /\ ops[o].sendState = "resolved"
        /\ ops[o].frags[2].settledAt < ops[o].frags[1].settledAt
        /\ ops[o].frags[1].settledAt = now

\* C29: the id a send assigns to its message is an integer of 0..2^32-1, so
\* the id written into the 4 bytes of the wire, which the peer echoes in its
\* acks and responses, is the id of the ack ids and response ids of the sender
C29_IdIsUInt32 ==
    \A o \in 1..Len(ops) :
        /\ ops[o].message.id.frac = 0
        /\ ~IdOutOfRange(ops[o].message.id)
        /\ \A i \in 1..Len(ops[o].frags) :
              LET onWire == Decode(ops[o].frags[i].buffer, ops[o].to,
                                   DefaultSignature, Null).message
              IN  /\ onWire.id = ops[o].message.id
                  /\ GetAckId(onWire, ops[o].to, i - 1)
                        = GetAckId(ops[o].message, ops[o].to, i - 1)
                  /\ GetResponseId(onWire, ops[o].to)
                        = GetResponseId(ops[o].message, ops[o].to)

Registered == { o \in 1..Len(ops) : ops[o].qRegisteredAt # NoTimer }

\* C33: sendQuery creates its pending response and arms the response timeout
\* only once sendMessage has completed, after the socket callback of every
\* fragment and, with acks, after every ack; when sendMessage rejects with an
\* ack timeout sendQuery rejects with that error and never creates them
C33_ResponseRegisteredAfterSend ==
    /\ \A o \in 1..Len(ops) :
          /\ ops[o].sendState = "pending" =>
                /\ ops[o].qRegisteredAt = NoTimer /\ ops[o].qTimer = NoTimer
                /\ ops[o].kind = "query" => ops[o].qState = "sending"
          /\ o \in Registered =>
                /\ ops[o].kind = "query" /\ ops[o].sendState = "resolved"
                /\ \A i \in 1..Len(ops[o].frags) :
                      /\ ops[o].frags[i].promise = "resolved"
                      /\ ops[o].message.wantAck =>
                            /\ ops[o].frags[i].ack = "resolved"
                            /\ ops[o].frags[i].settledAt <= ops[o].qRegisteredAt
          /\ ops[o].sendState = "rejected" =>
                /\ ops[o].sendError = TimeoutError("Ack timeout")
                /\ ops[o].qRegisteredAt = NoTimer /\ ops[o].qTimer = NoTimer
                /\ ops[o].kind = "query" =>
                      ops[o].qState = "rejected" /\ ops[o].qError = ops[o].sendError
    /\ CacheKeys(pendingResponses)
          \subseteq { GetResponseId(ops[o].message, ops[o].to) : o \in Registered }

\* A query in two fragments whose second ack never came: rejected with the
\* ack timeout, nothing registered
C33_Witness ==
    \E o \in 1..Len(ops) :
        /\ ops[o].kind = "query" /\ Len(ops[o].frags) = 2
        /\ ops[o].frags[1].ack = "resolved" /\ ops[o].frags[2].ack = "rejected"
        /\ ops[o].qState = "rejected"
        /\ ops[o].qError = TimeoutError("Ack timeout")
        /\ CacheKeys(pendingResponses) = {}
        /\ lastRx.strayResponse

\* The datagram received in this step has IS_ACK set
AckCameIn ==
    /\ rxCount' = rxCount + 1
    /\ Len(lastRx'.buffer) >= MIN_HEADER_SIZE
    /\ HasFlag(ReadUInt16BE(lastRx'.buffer, 4), FLAG_IS_ACK)

\* C35: a packet with IS_ACK ends where it is received, whether it finds a
\* pending ack or not: no ack is sent for it, nothing goes to the reassembly
\* cache or to the socket, no message event and no typed event is emitted
C35_AckIsTerminal ==
    [][ AckCameIn =>
          /\ ~lastRx'.ackSent /\ lastRx'.ackBuffer = <<>>
          /\ lastRx'.ackTo = NoEndpoint
          /\ lastRx'.events = <<>> /\ ~lastRx'.isFull /\ ~lastRx'.reassembled
          /\ UNCHANGED <<pendingReassemblies, net, thrown>>
          /\ \A o \in 1..Len(ops) : \A i \in 1..Len(ops[o].frags) :
                ops'[o].frags[i].sent = ops[o].frags[i].sent ]_vars

\* The ack of the second fragment of a message came in and resolved it; a
\* copy of the same ack came in next and found nothing
C35_Witness ==
    /\ rxCount = 2 /\ lastRx.decoded /\ lastRx.message.isAck
    /\ lastRx.message.fragmented /\ lastRx.message.fragmentIndex = 1
    /\ lastRx.strayAck
    /\ \E o \in 1..Len(ops) :
          /\ Len(ops[o].frags) = 2
          /\ ops[o].frags[2].ack = "resolved"
          /\ lastRx.message.id = ops[o].message.id
          /\ lastRx.message.sender = ops[o].to

\* C38: whatever the timing of acks, timers and socket callbacks, a fragment
\* sent with retries = N is handed to the socket at most N + 1 times: once,
\* and once more for each retry counted down or under way
C38_AtMostRetriesPlusOne ==
    \A o \in 1..Len(ops) : \A i \in 1..Len(ops[o].frags) :
        LET frag == ops[o].frags[i]
            N == ops[o].retries
        IN  /\ frag.sent <= N + 1
            /\ frag.retries >= 0
            /\ frag.sent = 1 + (N - frag.retries)
                            + (IF frag.awaiting = "retry" THEN 1 ELSE 0)
            /\ ~ops[o].message.wantAck => frag.sent = 1

\* A fragment sent with retries = 2 whose ack came after the second resend:
\* three datagrams, and no more after the ack
C38_Witness ==
    \E o \in 1..Len(ops) : \E i \in 1..Len(ops[o].frags) :
        /\ ops[o].retries = 2
        /\ ops[o].frags[i].sent = 3 /\ ops[o].frags[i].retries = 0
        /\ ops[o].frags[i].ack = "resolved"
        /\ ops[o].frags[i].settledAt < now

-----------------------------------------------------------------------------
(* Claims about sends outstanding together, checked under SpecTwin          *)

\* The pending acks this step resolves, as <<op, fragment>>
ResolvedNow ==
    UNION { { <<o, i>> : i \in { j \in 1..Len(ops[o].frags) :
                                   /\ ops[o].frags[j].ack = "pending"
                                   /\ ops'[o].frags[j].ack = "resolved" } }
            : o \in 1..Len(ops) }

\* C34: an ack that comes in resolves at most one pending ack, the one of a
\* fragment sent to the sender of the ack with the type, the command and the
\* id of the ack and, for a fragmented message, its fragment index and its
\* number of fragments; nothing but an ack resolves a pending ack
C34_AckResolvesItsFragmentOnly ==
    [][ /\ Cardinality(ResolvedNow) <= 1
        /\ \A p \in ResolvedNow :
              LET a == lastRx'.message
                  sent == ops[p[1]].message
              IN  /\ rxCount' = rxCount + 1
                  /\ lastRx'.decoded /\ a.isAck
                  /\ a.sender = ops[p[1]].to
                  /\ a.type = sent.type /\ a.command = sent.command
                  /\ a.id = sent.id
                  /\ a.id = ReadUInt32BE(ops[p[1]].frags[p[2]].buffer, 11)
                  /\ a.fragmented = (Len(ops[p[1]].frags) > 1)
                  /\ a.fragmented => /\ a.fragmentIndex = p[2] - 1
                                     /\ a.fragments = Len(ops[p[1]].frags) ]_vars

\* Two messages in two fragments under one id, to two endpoints: the peer's
\* ack of its second fragment resolved that fragment and nothing else
C34_Witness ==
    /\ Len(ops) = 2 /\ lastRx.ackFound
    /\ ops[1].to = Peer /\ ops[2].to = Other
    /\ ops[1].message.id = ops[2].message.id
    /\ Len(ops[1].frags) = 2 /\ Len(ops[2].frags) = 2
    /\ lastRx.ackRef = <<1, 2>>
    /\ ops[1].frags[2].ack = "resolved" /\ ops[1].frags[1].ack = "pending"
    /\ ops[2].frags[1].ack = "pending" /\ ops[2].frags[2].ack = "pending"

\* The ack id fragment i of op o is registered under
AckIdOf(o, i) == GetAckId(ops[o].message, ops[o].to, i - 1)

\* The entry of its ack id is the one of fragment i of op o
HoldsEntry(o, i) ==
    /\ CacheHas(pendingAcks, AckIdOf(o, i))
    /\ CacheGet(pendingAcks, AckIdOf(o, i)) = <<o, i>>

\* Fragment i of ops p and q wait for their ack under one ack id
Twins(p, q, i) ==
    /\ p # q
    /\ i <= Len(ops[p].frags) /\ i <= Len(ops[q].frags)
    /\ AckIdOf(p, i) = AckIdOf(q, i)
    /\ ops[p].frags[i].ack = "pending" /\ ops[q].frags[i].ack = "pending"

\* C39: two want-ack sends outstanding together with the same endpoint, type,
\* command, id and fragment share one ack id and one entry: the one
\* registered last has it, an ack resolves that one only, and the other,
\* left without entry, no ack resolves: it ends by its timeout
C39_LaterRegistrationWins ==
    /\ [](\A p \in 1..Len(ops) : \A q \in 1..Len(ops) : \A i \in 1..2 :
            Twins(p, q, i) =>
                /\ ~(HoldsEntry(p, i) /\ HoldsEntry(q, i))
                /\ ops[p].to = ops[q].to
                /\ ops[p].message.id = ops[q].message.id
                /\ Len(ops[p].frags) = Len(ops[q].frags))
    /\ [][\A o \in 1..Len(ops) : \A i \in 1..Len(ops[o].frags) :
            /\ (ops[o].frags[i].ack = "none" /\ ops'[o].frags[i].ack = "pending")
                  => CacheGet(pendingAcks', AckIdOf(o, i)) = <<o, i>>
            /\ (ops[o].frags[i].ack = "pending" /\ ~HoldsEntry(o, i))
                  => ops'[o].frags[i].ack \in {"pending", "rejected"}
            /\ (ops[o].frags[i].ack = "pending" /\ ops'[o].frags[i].ack = "rejected")
                  => /\ ops'[o].frags[i].error = TimeoutError("Ack timeout")
                     /\ now = ops[o].frags[i].registeredAt + AckForgetTimeout]_vars

\* Two sends of one message to one endpoint: the first ack resolved the
\* send registered last, a second ack found nothing, and the other send was
\* rejected by its timeout
C39_Witness ==
    /\ Len(ops) = 2 /\ rxCount = 2 /\ lastRx.strayAck
    /\ ops[1].to = ops[2].to /\ ops[1].message.id = ops[2].message.id
    /\ Len(ops[1].frags) = 1 /\ Len(ops[2].frags) = 1
    /\ lastRx.message.id = ops[1].message.id /\ lastRx.message.sender = ops[1].to
    /\ ops[2].frags[1].ack = "resolved"
    /\ ops[1].frags[1].ack = "rejected"
    /\ ops[1].sendError = TimeoutError("Ack timeout")

-----------------------------------------------------------------------------
(* Claims about the payload forms, checked under SpecPayload                *)

\* The value the buffer of m stands for
BufferValue(m) ==
    Unserialize(IF m.compressedData THEN InflateRaw(m.dataBuffer) ELSE m.dataBuffer)

\* C30 as stated: the flags encoded and decoded of a message are never both
\* true, whatever payload methods, encode and decode were called on it
C30_NeverBothForms == ~(cMsg.encoded /\ cMsg.decoded)

\* C30: setData leaves the data alone current (decoded, not encoded, no
\* buffer) and setDataBuffer the buffer alone (encoded, not decoded, no
\* data); clearDataBuffer drops the buffer; encodeData and decodeData add the
\* missing form and keep the other, so that both flags may be true, and then
\* the buffer is the encoding of the data
C30_FormsAgree ==
    /\ cPc = "setData" =>
          cMsg.decoded /\ ~cMsg.encoded /\ cMsg.dataBuffer = Null
          /\ cMsg.data \in PayloadData
    /\ cPc = "setDataBuffer" =>
          cMsg.encoded /\ ~cMsg.decoded /\ cMsg.data = Undefined
          /\ cMsg.dataBuffer # Null
    /\ cPc = "clearDataBuffer" => ~cMsg.encoded /\ cMsg.dataBuffer = Null
    /\ cPc \in {"encodeData", "encode"} /\ cMsg.data # Undefined => cMsg.encoded
    /\ cMsg.encoded => cMsg.dataBuffer # Null
    /\ cMsg.decoded => cMsg.data # Undefined
    /\ (cMsg.encoded /\ cMsg.decoded) =>
          /\ ~cMsg.compressedData \/ IsDeflated(cMsg.dataBuffer)
          /\ BufferValue(cMsg) = cMsg.data

\* Both forms current: a message whose data was set, then encoded
C30_Witness ==
    /\ cPc = "encode"
    /\ cMsg.encoded /\ cMsg.decoded
    /\ cMsg.data = DataString(20, 3) /\ cMsg.compressedData
    /\ Len(cBuffers) = 2

-----------------------------------------------------------------------------
(* Claims about termination, checked under SpecLive                         *)

\* The acks of op o that were wanted are all resolved or rejected
AcksSettled(o) ==
    \A i \in 1..Len(ops[o].frags) :
        ops[o].message.wantAck => ops[o].frags[i].ack \in {"resolved", "rejected"}

\* The handle the send of op o returned is settled
HandleSettled(o) ==
    /\ ops[o].sendState \in {"resolved", "rejected"}
    /\ ops[o].kind = "query" => ops[o].qState \in {"resolved", "rejected"}

\* C28: every fragment sent with an ack wanted ends with its ack resolved or
\* rejected, whatever comes back from the peer and whenever, and every handle
\* sendCommand or sendQuery returned ends settled
C28_EverySendSettles ==
    \A o \in 1..MaxOps :
        (Len(ops) >= o) ~> (Len(ops) >= o /\ AcksSettled(o) /\ HandleSettled(o))

\* A query in two fragments, each acked, that nobody answered: rejected by
\* its response timeout
C28_Witness ==
    \E o \in 1..Len(ops) :
        /\ ops[o].kind = "query" /\ ops[o].message.wantAck
        /\ Len(ops[o].frags) = 2
        /\ AcksSettled(o) /\ HandleSettled(o)
        /\ ops[o].sendState = "resolved"
        /\ ops[o].qError = TimeoutError("Response timeout")
        /\ now > MaxTime

-----------------------------------------------------------------------------
(* Claims about what comes in, checked under SpecRx                         *)

\* C7: the ack sent for a received message m goes to the sender of m and
\* carries the signature, type, command and id of m, IS_ACK and not WANT_ACK,
\* no payload, and FRAGMENTED with the index and the total of m exactly when
\* m is a fragment
C7_AckEcho ==
    lastRx.ackSent =>
        LET m == lastRx.message
            a == Decode(lastRx.ackBuffer, Self, m.protocolSignature, Null)
        IN  /\ a.ok
            /\ lastRx.ackTo = m.sender
            /\ a.message.type = m.type
            /\ a.message.command = m.command
            /\ a.message.id = m.id
            /\ a.message.isAck /\ ~a.message.wantAck /\ ~a.message.isNack
            /\ a.message.dataBuffer = Null
            /\ ~HasFlag(ReadUInt16BE(lastRx.ackBuffer, 4), FLAG_HAS_DATA)
            /\ a.message.fragmented = m.fragmented
            /\ m.fragmented => /\ a.message.fragmentIndex = m.fragmentIndex
                               /\ a.message.fragments = m.fragments

C7_Witness ==
    /\ lastRx.ackSent
    /\ lastRx.message.fragmented
    /\ lastRx.message.fragmentIndex = 1
    /\ lastRx.message.fragments = 2

\* receive has run in this step
Received == rxCount' = rxCount + 1

\* The header size the flags of a buffer imply
ImpliedHeaderSize(buffer) ==
    MIN_HEADER_SIZE
    + (IF HasFlag(ReadUInt16BE(buffer, 4), FLAG_SESSION) THEN SESSION_SIZE ELSE 0)
    + (IF HasFlag(ReadUInt16BE(buffer, 4), FLAG_FRAGMENTED) THEN 4 ELSE 0)

\* The k-th of the nine defects of a buffer
Defect(k, buffer) ==
    LET flags == ReadUInt16BE(buffer, 4)
        has(f) == HasFlag(flags, f)
    IN  IF Len(buffer) < 15 THEN k = 1
        ELSE CASE k = 1 -> FALSE
               [] k = 2 -> buffer[4] # 0
               [] k = 3 -> Slice(buffer, 0, 3) # DefaultSignature
               [] k = 4 -> buffer[7] \notin {67, 81, 82, 69, 75, 72, 104}
               [] k = 5 -> has(FLAG_WANT_ACK) /\ (has(FLAG_IS_ACK) \/ has(FLAG_IS_NACK))
               [] k = 6 -> has(FLAG_HAS_DATA) /\ (has(FLAG_IS_ACK) \/ has(FLAG_IS_NACK))
               [] k = 7 -> (has(FLAG_COMPRESSED_DATA) \/ has(FLAG_ENCRYPTED_DATA))
                           /\ ~has(FLAG_HAS_DATA)
               [] k = 8 -> has(FLAG_HAS_DATA) /\ Len(buffer) <= ImpliedHeaderSize(buffer)
               [] k = 9 -> ~has(FLAG_HAS_DATA) /\ Len(buffer) # ImpliedHeaderSize(buffer)

Defective(buffer) == \E k \in 1..9 : Defect(k, buffer)

\* The datagram of this step is dropped: not decoded, no ack sent back, no
\* event, nothing dispatched, and the caches, the sends and the socket are
\* as they were
Discarded ==
    /\ ~lastRx'.decoded /\ ~lastRx'.ackSent /\ ~lastRx'.isFull
    /\ lastRx'.events = <<>>
    /\ ~lastRx'.ackFound /\ ~lastRx'.responseFound /\ ~lastRx'.reassembled
    /\ UNCHANGED <<pendingAcks, pendingReassemblies, pendingResponses, ops, net, thrown>>

\* C12: a buffer that is too short, has a byte other than 0 at offset 3,
\* another signature, an unknown type, WANT_ACK with IS_ACK or IS_NACK,
\* HAS_DATA with IS_ACK or IS_NACK, COMPRESSED or ENCRYPTED without HAS_DATA,
\* HAS_DATA and no byte after the header, or no HAS_DATA and a length other
\* than its header size, is rejected by decode and dropped by receive: no
\* cache changes, no event, no reply
C12_MalformedDiscarded ==
    [][Received /\ Defective(lastRx'.buffer) => Discarded]_vars

\* A buffer of an unknown type was dropped while a reassembly was pending,
\* and each of the nine defects is the only defect of some datagram
C12_Witness ==
    /\ lastRx.seen /\ ~lastRx.decoded
    /\ Defect(4, lastRx.buffer)
    /\ CacheKeys(pendingReassemblies) # {}
    /\ \A k \in 1..9 : \E dg \in Unsolicited :
          \A j \in 1..9 : Defect(j, dg.buffer) <=> j = k

\* C13: with sessions disabled, a datagram whose SESSION flag is set is
\* rejected by decode: it is not acked, not reassembled, not dispatched
C13_SessionPacketsRejected ==
    ( /\ ~EnableSession
      /\ lastRx.seen
      /\ Len(lastRx.buffer) >= MIN_HEADER_SIZE
      /\ HasFlag(ReadUInt16BE(lastRx.buffer, 4), FLAG_SESSION) )
    => /\ ~lastRx.decoded /\ ~lastRx.ackSent /\ ~lastRx.isFull
       /\ ~lastRx.reassembled /\ lastRx.events = <<>>

\* C14: with a list of supported commands, a datagram with no other reason
\* to be rejected is decoded exactly when its command is in the list
C14_AllowListAccepts ==
    ( /\ lastRx.seen
      /\ supportedCommands # Null
      /\ ~Defective(lastRx.buffer)
      /\ ~HasFlag(ReadUInt16BE(lastRx.buffer, 4), FLAG_SESSION) )
    => (lastRx.decoded <=> Slice(lastRx.buffer, 7, 11) \in supportedCommands[1])

\* C18: once the last fragment has come in and the reassembled message is
\* dispatched, pendingReassemblies has no entry under its reassembly id (so
\* that a fragment sent again does not find a full slot vector)
C18_ReassemblyEntryRemoved ==
    lastRx.reassembled =>
        ~CacheHas(pendingReassemblies,
                  GetReassemblyId(lastRx.message, lastRx.message.sender))

\* The reassembly id of the fragment received in this step
RxReassemblyId == GetReassemblyId(lastRx'.message, lastRx'.message.sender)

\* The slots held for it before this step: those of the cache, or the
\* empty slots of a message seen for the first time
SlotsBefore ==
    IF CacheHas(pendingReassemblies, RxReassemblyId)
    THEN CacheGet(pendingReassemblies, RxReassemblyId)
    ELSE [i \in 1..lastRx'.message.fragments |-> NoSlot]

\* The same slots with the fragment of this step in its place
SlotsAfter ==
    [SlotsBefore EXCEPT ![lastRx'.message.fragmentIndex + 1] =
                            [filled |-> TRUE, message |-> lastRx'.message]]

\* A fragment with a payload comes in for a message that is not complete
FragmentStep ==
    /\ Received /\ lastRx'.decoded
    /\ ~lastRx'.message.isAck /\ lastRx'.message.fragmented
    /\ lastRx'.message.dataBuffer # Null
    /\ lastRx'.message.fragmentIndex < Len(SlotsBefore)
    /\ \E i \in 1..Len(SlotsBefore) : ~SlotsBefore[i].filled

\* C19: in whatever order the fragments of a message come in, duplicates
\* included, a fragment only takes its slot, nothing is dispatched while a
\* slot is empty, and the step that fills the last empty slot dispatches the
\* message with the payloads put together in the order of the fragment
\* indexes
C19_ReassemblyInIndexOrder ==
    [][ FragmentStep =>
        /\ CacheHas(pendingReassemblies', RxReassemblyId)
        /\ CacheGet(pendingReassemblies', RxReassemblyId) = SlotsAfter
        /\ CacheKeys(pendingReassemblies')
             = CacheKeys(pendingReassemblies) \cup {RxReassemblyId}
        /\ IF \E i \in 1..Len(SlotsAfter) : ~SlotsAfter[i].filled
           THEN /\ ~lastRx'.isFull /\ ~lastRx'.reassembled
                /\ lastRx'.events = <<>>
                /\ UNCHANGED <<ops, pendingResponses, thrown>>
           ELSE /\ lastRx'.isFull /\ lastRx'.reassembled
                /\ lastRx'.full.reassembled
                /\ lastRx'.full.dataBuffer
                     = Concat([i \in 1..Len(SlotsAfter) |->
                                 SlotsAfter[i].message.dataBuffer])
                /\ \A i \in 1..Len(SlotsAfter) :
                      SlotsAfter[i].message.fragmentIndex = i - 1
                /\ lastRx'.full.type = lastRx'.message.type
                /\ lastRx'.full.command = lastRx'.message.command
                /\ lastRx'.full.id = lastRx'.message.id
                /\ Len(lastRx'.events) = 2 ]_vars

\* The payload of the command sent in three fragments
HugePayload ==
    Encode(CreateMessage(DefaultSignature, TRUE, 67, CmdPing, IntId(0, 12),
                         DataString(33, 9), FALSE), 0).message.dataBuffer

\* The three fragments came in last first, and the message was dispatched
\* with its payload in order
C19_Witness ==
    /\ rxCount = 3
    /\ lastRx.reassembled
    /\ lastRx.message.fragments = 3
    /\ lastRx.message.fragmentIndex = 0
    /\ lastRx.full.dataBuffer = HugePayload
    /\ Len(HugePayload) = 35

\* C20: a decoded packet is answered by an ack, one, to its sender, exactly
\* when it has WANT_ACK, is not an ack, and ignoreWantedAck is false; a
\* packet that is not decoded is not answered, and with ignoreWantedAck no
\* ack is ever sent
C20_AckIffWanted ==
    lastRx.seen =>
        LET flags == ReadUInt16BE(lastRx.buffer, 4)
        IN  /\ lastRx.ackSent <=>
                  /\ lastRx.decoded
                  /\ HasFlag(flags, FLAG_WANT_ACK) /\ ~HasFlag(flags, FLAG_IS_ACK)
                  /\ ~ignoreWantedAck
            /\ lastRx.ackSent =>
                  /\ lastRx.ackTo = lastRx.message.sender
                  /\ Len(lastRx.ackBuffer) >= MIN_HEADER_SIZE
                  /\ HasFlag(ReadUInt16BE(lastRx.ackBuffer, 4), FLAG_IS_ACK)
            /\ ~lastRx.ackSent => lastRx.ackTo = NoEndpoint /\ lastRx.ackBuffer = <<>>

\* The last fragment of a message that wants acks came in, on an engine
\* that does not ignore the wanted acks, and was acked
C20_Witness ==
    /\ rxCount = 3
    /\ lastRx.ackSent /\ ~ignoreWantedAck
    /\ lastRx.message.fragmented /\ lastRx.message.fragmentIndex = 1
    /\ lastRx.reassembled
    /\ Len(CacheGet(pendingReassemblies,
                    GetReassemblyId(lastRx.message, lastRx.message.sender))) = 2

\* C31: a message Message.decode returned has a fragment index below its
\* number of fragments, itself at least 1, so that no other message gets to
\* the acks, the reassembly or the listeners
C31_DecodedIndexBelowTotal ==
    lastRx.decoded =>
        /\ lastRx.message.fragments >= 1
        /\ lastRx.message.fragmentIndex < lastRx.message.fragments

\* C36: receive returns normally whatever the bytes of the datagram: what
\* cannot be processed is logged and dropped, no exception leaves receive,
\* not even for a packet with FRAGMENTED and neither HAS_DATA nor IS_ACK nor
\* IS_NACK that completes a reassembly
C36_ReceiveNeverThrows == ~thrown

\* A fragment whose index is not below the number of slots of its reassembly
\* entry came in in this step
BeyondCameIn ==
    /\ rxCount' = rxCount + 1
    /\ lastRx'.decoded /\ ~lastRx'.message.isAck /\ lastRx'.message.fragmented
    /\ lastRx'.message.fragmentIndex >= lastRx'.message.fragments

\* C37: a fragment whose index is at or above the number of slots of its
\* reassembly entry is dropped with an error: the slots of every entry stay
\* as they are (an entry made for it has empty slots only) and no message
\* is dispatched
C37_IndexTooBigDropped ==
    [][ BeyondCameIn =>
          /\ lastRx'.fragmentDropped
          /\ lastRx'.events = <<>> /\ ~lastRx'.isFull /\ ~lastRx'.reassembled
          /\ UNCHANGED <<thrown, pendingAcks, pendingResponses, ops>>
          /\ \A key \in CacheKeys(pendingReassemblies) :
                /\ CacheHas(pendingReassemblies', key)
                /\ CacheGet(pendingReassemblies', key) = CacheGet(pendingReassemblies, key)
          /\ \A key \in CacheKeys(pendingReassemblies') \ CacheKeys(pendingReassemblies) :
                /\ key = GetReassemblyId(lastRx'.message, lastRx'.message.sender)
                /\ \A i \in 1..Len(CacheGet(pendingReassemblies', key)) :
                      ~CacheGet(pendingReassemblies', key)[i].filled ]_vars

\* Fragment 2 of a message of two fragments was dropped while the entry of
\* the message held its first fragment
C37_Witness ==
    /\ lastRx.fragmentDropped
    /\ lastRx.message.fragmentIndex = 2 /\ lastRx.message.fragments = 2
    /\ CacheHas(pendingReassemblies,
                GetReassemblyId(lastRx.message, lastRx.message.sender))
    /\ CacheGet(pendingReassemblies,
                GetReassemblyId(lastRx.message, lastRx.message.sender))[1].filled
    /\ ~CacheGet(pendingReassemblies,
                 GetReassemblyId(lastRx.message, lastRx.message.sender))[2].filled

\* C40: the receiver keeps no record of what it delivered: every datagram
\* that decodes to a message that is neither an ack nor a fragment is
\* dispatched when it arrives, with the message event and the typed event,
\* and acked when it wants an ack, be it the copy of the datagram before it
\* or not: the listeners run once for each copy received
C40_DispatchedPerArrival ==
    (lastRx.seen /\ lastRx.decoded /\ ~lastRx.message.isAck
                 /\ ~lastRx.message.fragmented) =>
        /\ lastRx.isFull /\ lastRx.full = lastRx.message
        /\ lastRx.events
             = << [emitter |-> "this", name |-> EvMessage],
                  [emitter |-> "incoming",
                   name |-> <<lastRx.message.type>> \o lastRx.message.command] >>
        /\ lastRx.ackSent <=> (lastRx.message.wantAck /\ ~ignoreWantedAck)
        /\ ~lastRx.fragmentDropped /\ ~thrown

\* The same command that wants an ack came in twice in a row: the second
\* copy was acked and dispatched like the first
C40_Witness ==
    /\ rxCount = 2 /\ lastRx.again
    /\ lastRx.decoded /\ lastRx.message.type = 67 /\ lastRx.message.wantAck
    /\ ~lastRx.message.fragmented
    /\ lastRx.ackSent /\ lastRx.isFull /\ Len(lastRx.events) = 2

====
